---- MODULE Spec2Model ----
(***************************************************************************)
(* The theme resolution and style-caching engine of PyLunix:               *)
(*   YAMLProcessor  (pylunix/utils/yaml_util.py)                           *)
(*   QSSProcessor   (pylunix/utils/qss_utils.py)                           *)
(*   ThemeManager   (pylunix/common/theme_manager.py)                      *)
(*   WidgetRegistry (pylunix/common/widget_registry.py)                    *)
(*                                                                         *)
(* Python strings are TLA+ strings (Len, SubSeq and \o act on them).       *)
(* Every other YAML value is a tagged record, so that values of different  *)
(* Python types can be compared:                                           *)
(*   None -> Null, str -> S(x), int -> N(i), list -> L(<<..>>),            *)
(*   dict -> M(<< <<key, value>>, ... >>) in insertion order.              *)
(* Dictionary keys are strings.                                            *)
(***************************************************************************)
EXTENDS Integers, Sequences, FiniteSets, TLC

VARIABLES
    \* ---- YAMLProcessor.resolve applied to one input (SpecResolve)
    rBase,            \* the base/common document (self.data)
    rComp,            \* the component document at `path`
    rTheme,           \* the theme argument
    rOut,             \* the mapping resolve returned, or NotCalled
    \* ---- QSSProcessor.apply_to_string applied to one input (SpecExpand)
    eVars,            \* self.variables
    eText,            \* the template text
    eOut,             \* the text apply_to_string returned, or NotCalled
    \* ---- ThemeManager and its collaborators, calls made one after another (Spec)
    theme,                    \* ThemeManager.theme
    RESOLVED_CACHE,           \* component name -> [data, path]
    RAW_DATA_CACHE,           \* yaml path -> raw document
    LOADED_COMPONENTS,        \* set of component names
    component_resources,      \* the accumulated token map; QSSProcessor.variables
                              \* is this same dict object
    pattern,                  \* QSSProcessor._pattern: its alternatives in order
    template_cache,           \* QSSProcessor._template_cache: qss path -> text
    processed_cache,          \* QSSProcessor._processed_cache: qss path -> text
    FILE_CACHE,               \* yaml_util._FILE_CACHE: path -> [mtime, data]
    widgets,                  \* WidgetRegistry._widgets: <<widget, component>> pairs
    existing_qss_paths,       \* WidgetRegistry._existing_qss_paths
    missing_qss_components,   \* WidgetRegistry._missing_qss_components
    styleSheet,               \* widget -> the text last given to setStyleSheet
    alive,                    \* the widgets that have not been destroyed
    restyled,                 \* instrumentation: the widgets whose setStyleSheet
                              \* returned during the last call
    refreshed,                \* instrumentation: the widgets whose updateIcon
                              \* was called during the last call
    resolveLog,               \* instrumentation: calls of YAMLProcessor.resolve
    switched,                 \* instrumentation: the last set_theme that changed
                              \* the theme returned (did not raise)
    lastOp,                   \* instrumentation: the last call and its outcome
    nOps,                     \* instrumentation: the number of calls so far
    \* ---- threads inside one QSSProcessor (SpecQss)
    qThread,          \* thread -> where it is in its call, and its locals
    qGen,             \* instrumentation: the number of assignments of self.variables
    qTag,             \* instrumentation: qss path -> qGen when its cached
                      \* expansion was computed
    qCalls,           \* instrumentation: the number of calls begun so far
    \* ---- the files on disk
    qssDisk,          \* the style templates: path -> text
    yamlDisk,         \* the token files: path -> [mtime, data], data being
                      \* what yaml.safe_load makes of the content
    lastMTime,        \* instrumentation: path -> the latest modification time
                      \* the file has had, 0 when it never existed
    mtimesIncrease,   \* instrumentation: every write so far gave its file a
                      \* modification time later than lastMTime
    \* ---- the widgets as the registry finds them
    wFault,           \* widget -> which of its methods raise
    \* ---- threads inside ThemeManager.get_instance (SpecInstance)
    instance,         \* ThemeManager._instance: NoInstance, or the index in
                      \* managers of the one it refers to
    managers,         \* the ThemeManagers constructed so far, each with its
                      \* own theme
    giThread,         \* thread -> where it is in get_instance, the object it
                      \* constructed, the one it last received, its calls
    \* ---- threads inside ThemeManager.load_component (SpecLock)
    lkOwner,          \* the thread that holds ThemeManager._CACHE_LOCK, or
                      \* "free"
    lkThread,         \* thread -> where it is in load_component, and its
                      \* locals
    lkCalls,          \* instrumentation: the number of calls begun so far
    unguarded,        \* instrumentation: the shared state assigned to by a
                      \* thread that did not hold the lock
    lkSeen,           \* instrumentation: what the last reader looked at, and
                      \* whether the accumulated map was partly merged then
    \* ---- a RepeatButton (SpecRepeat)
    rbHeld,           \* the user holds the mouse button down on the widget
    rbDown,           \* QAbstractButton.isDown()
    rbTimer,          \* _repeat_timer: [active, interval, left], in ticks
    repeat_delay,     \* _repeat_delay, in ticks
    repeat_interval,  \* _repeat_interval, in ticks
    rbClicks,         \* instrumentation: the clicked() signals emitted
    rbPresses,        \* instrumentation: the times the user pressed
    rbDue,            \* instrumentation: the ticks left until the next click
                      \* of a held button is due: the delay after the press,
                      \* the interval after a click
    rbTime,           \* instrumentation: the ticks passed
    rbLast,           \* instrumentation: the last event
    \* ---- a NumberBoxEdit (SpecNumber)
    nbText,           \* QLineEdit.text()
    internal_value,   \* _internal_value: Null is None
    nbLast,           \* instrumentation: the last event, and what value gave
    \* ---- a QSSProcessor whose set_variables a client calls too (SpecEngine)
    detached,         \* QSSProcessor.variables is a dict of the client, no
                      \* longer the ThemeManager's component_resources
    tmDict,           \* ThemeManager.component_resources while detached
    \* ---- a caller inside _load_file_cached or force_reload (SpecReload)
    rlLocal,          \* where the caller is, its locals, and instrumentation
    \* ---- register on one thread, set_theme on another (SpecRace)
    rcReg,            \* the registering thread: where it is, and its locals
    rcSw,             \* the switching thread: where it is, and its locals
    \* ---- threads taking the two locks (SpecOrder)
    loThread,         \* thread -> the lock operations its call has still to do
    loOwner,          \* lock -> the thread that holds it, or "free"
    loCount           \* lock -> how many times its owner has acquired it

resolveVars == <<rBase, rComp, rTheme, rOut>>
expandVars  == <<eVars, eText, eOut>>
tmVars == <<theme, RESOLVED_CACHE, RAW_DATA_CACHE, LOADED_COMPONENTS,
            component_resources, pattern, template_cache, processed_cache,
            FILE_CACHE, widgets, existing_qss_paths, missing_qss_components,
            styleSheet, alive, restyled, refreshed, resolveLog, switched,
            lastOp, nOps>>
qssVars == <<qThread, qGen, qTag, qCalls>>
fsVars == <<qssDisk, yamlDisk>>
loadVars == <<lastMTime, mtimesIncrease>>
\* the variables that the calls of Spec, SpecResolve, SpecExpand and SpecQss
\* never touch
widgetVars == <<wFault>>
instVars == <<instance, managers, giThread>>
lockVars == <<lkOwner, lkThread, lkCalls, unguarded, lkSeen>>
repeatVars == <<rbHeld, rbDown, rbTimer, repeat_delay, repeat_interval,
                rbClicks, rbPresses, rbDue, rbTime, rbLast>>
numberVars == <<nbText, internal_value, nbLast>>
engineVars == <<detached, tmDict>>
reloadVars == <<rlLocal>>
raceVars == <<rcReg, rcSw>>
orderVars == <<loThread, loOwner, loCount>>
lateVars == <<numberVars, engineVars, reloadVars, raceVars, orderVars>>
procVars == <<instVars, lockVars, repeatVars, lateVars>>
extVars == <<fsVars, widgetVars, loadVars, procVars>>
vars == <<resolveVars, expandVars, tmVars, qssVars, extVars>>

NotCalled == [t |-> "notcalled"]

(***************************************************************************)
(* Values                                                                  *)
(***************************************************************************)
Null  == [t |-> "null"]
S(x)  == [t |-> "str",  s |-> x]
N(i)  == [t |-> "num",  n |-> i]
L(xs) == [t |-> "list", l |-> xs]
M(ps) == [t |-> "map",  m |-> ps]

EmptyDoc == M(<<>>)

\* the variables of a specification that is not the one being run
ResolveIdle ==
    /\ rBase = EmptyDoc /\ rComp = EmptyDoc /\ rTheme = "Default" /\ rOut = NotCalled

ExpandIdle ==
    /\ eVars = <<>> /\ eText = "" /\ eOut = NotCalled

IsStr(v)  == v.t = "str"
IsMap(v)  == v.t = "map"
IsList(v) == v.t = "list"
IsNull(v) == v.t = "null"

\* dict operations on the pair sequence of a mapping
Keys(ps)      == {ps[i][1] : i \in DOMAIN ps}
HasKey(ps, k) == \E i \in DOMAIN ps : ps[i][1] = k
Get(ps, k)    == ps[CHOOSE i \in DOMAIN ps : ps[i][1] = k][2]
GetOr(ps, k, dflt) == IF HasKey(ps, k) THEN Get(ps, k) ELSE dflt
\* d[k] = v : an existing key keeps its position, a new key is appended
Put(ps, k, v) ==
    IF HasKey(ps, k)
    THEN [i \in DOMAIN ps |-> IF ps[i][1] = k THEN <<k, v>> ELSE ps[i]]
    ELSE Append(ps, <<k, v>>)
Values(ps) == [i \in DOMAIN ps |-> ps[i][2]]

\* Python truthiness, as `x or {}` uses it
Truthy(v) ==
    CASE v.t = "null" -> FALSE
      [] v.t = "str"  -> v.s /= ""
      [] v.t = "num"  -> v.n /= 0
      [] v.t = "list" -> v.l /= <<>>
      [] v.t = "map"  -> v.m /= <<>>
      [] OTHER        -> TRUE

(***************************************************************************)
(* str methods                                                             *)
(***************************************************************************)
Char(s, i) == SubSeq(s, i, i)

StartsWith(s, p) == Len(s) >= Len(p) /\ SubSeq(s, 1, Len(p)) = p
EndsWith(s, p)   == Len(s) >= Len(p) /\ SubSeq(s, Len(s) - Len(p) + 1, Len(s)) = p
Contains(s, c)   == \E i \in 1..Len(s) : Char(s, i) = c

\* s.strip("{}") : drops every leading and trailing brace
RECURSIVE LStripBraces(_)
LStripBraces(s) ==
    IF Len(s) > 0 /\ Char(s, 1) \in {"{", "}"}
    THEN LStripBraces(SubSeq(s, 2, Len(s)))
    ELSE s

RECURSIVE RStripBraces(_)
RStripBraces(s) ==
    IF Len(s) > 0 /\ Char(s, Len(s)) \in {"{", "}"}
    THEN RStripBraces(SubSeq(s, 1, Len(s) - 1))
    ELSE s

StripBraces(s) == RStripBraces(LStripBraces(s))

\* s.split(".")
RECURSIVE SplitFrom(_, _, _)
SplitFrom(s, i, cur) ==
    IF i > Len(s) THEN <<cur>>
    ELSE IF Char(s, i) = "."
         THEN <<cur>> \o SplitFrom(s, i + 1, "")
         ELSE SplitFrom(s, i + 1, cur \o Char(s, i))

SplitDots(s) == SplitFrom(s, 1, "")

(***************************************************************************)
(* YAMLProcessor: resolving helpers                                        *)
(***************************************************************************)
\* the loop of resolve_value: one step per path segment
RECURSIVE WalkPath(_, _)
WalkPath(result, key_path) ==
    IF key_path = <<>> THEN result
    ELSE IF IsMap(result) /\ HasKey(result.m, Head(key_path))
         THEN WalkPath(Get(result.m, Head(key_path)), Tail(key_path))
         ELSE Null

\* resolve_value that looks the whole dotted text up as one key (no split)
resolve_value_nosplit(data, value) ==
    IF ~IsStr(value) THEN value
    ELSE IF StartsWith(value.s, "{") /\ EndsWith(value.s, "}")
         THEN WalkPath(data, <<StripBraces(value.s)>>)
         ELSE value

resolve_value(data, value) ==
    IF ~IsStr(value) THEN value
    ELSE IF StartsWith(value.s, "{") /\ EndsWith(value.s, "}")
         THEN WalkPath(data, SplitDots(StripBraces(value.s)))
         ELSE value

get_theme_dict(data, theme_name) ==
    IF ~IsMap(data) THEN EmptyDoc
    ELSE LET theme_dict == GetOr(data.m, theme_name, Null) IN
         IF IsMap(theme_dict) THEN theme_dict
         ELSE LET alt == GetOr(data.m, "Themes", Null) IN
              IF IsMap(alt)
              THEN LET x == GetOr(alt.m, theme_name, EmptyDoc) IN
                   IF Truthy(x) THEN x ELSE EmptyDoc
              ELSE EmptyDoc

\* the nested walk of resolve (lines 160-170): ok, and the node reached
RECURSIVE NestedOk(_, _)
NestedOk(cur, parts) ==
    IF parts = <<>> THEN TRUE
    ELSE IsMap(cur) /\ HasKey(cur.m, Head(parts))
         /\ NestedOk(Get(cur.m, Head(parts)), Tail(parts))

RECURSIVE NestedCur(_, _)
NestedCur(cur, parts) ==
    IF parts = <<>> THEN cur
    ELSE NestedCur(Get(cur.m, Head(parts)), Tail(parts))

\* the candidate list of resolve (lines 137-147)
CandidateKeys(data, attrs) ==
    CASE attrs.t = "str"  -> <<resolve_value(data, attrs)>>
      [] attrs.t = "list" -> [i \in DOMAIN attrs.l |-> resolve_value(data, attrs.l[i])]
      [] attrs.t = "map"  -> [i \in DOMAIN attrs.m |-> resolve_value(data, attrs.m[i][2])]
      [] attrs.t = "null" -> <<>>
      [] OTHER            -> <<attrs>>

\* the candidate loop of resolve (lines 149-173): the value of `found` when the
\* loop ends, Null standing for Python's None
RECURSIVE FindFrom(_, _, _)
FindFrom(keys, i, theme_dict) ==
    IF i > Len(keys) THEN Null
    ELSE LET key == keys[i] IN
         IF IsNull(key) THEN FindFrom(keys, i + 1, theme_dict)
         ELSE IF IsMap(key) \/ IsList(key) THEN key
         ELSE IF IsMap(theme_dict) /\ IsStr(key) /\ HasKey(theme_dict.m, key.s)
              THEN Get(theme_dict.m, key.s)
         ELSE IF IsStr(key) /\ Contains(key.s, ".")
                 /\ NestedOk(theme_dict, SplitDots(key.s))
              THEN NestedCur(theme_dict, SplitDots(key.s))
         ELSE IF ~IsStr(key) \/ ~StartsWith(key.s, "{") THEN key
         ELSE FindFrom(keys, i + 1, theme_dict)

\* line 174 written as `resolved[comp] = found`
ResolveEntryNoFallback(data, theme_dict, attrs) ==
    FindFrom(CandidateKeys(data, attrs), 1, theme_dict)

\* one iteration of the loop over comp_data.items(), ending at line 174
ResolveEntry(data, theme_dict, attrs) ==
    LET OrOriginal(found) == IF ~IsNull(found) THEN found ELSE attrs
    IN  OrOriginal(FindFrom(CandidateKeys(data, attrs), 1, theme_dict))

\* YAMLProcessor(base).resolve(path, theme), comp_data being the document that
\* _load_file_cached(path) answered
resolve(data, comp_data, theme_name) ==
    LET cd         == IF Truthy(comp_data) THEN comp_data ELSE EmptyDoc
        theme_dict == get_theme_dict(data, theme_name)
        entries    == IF IsMap(cd) THEN cd.m ELSE <<>>
    IN  [i \in DOMAIN entries |->
            <<entries[i][1], ResolveEntry(data, theme_dict, entries[i][2])>>]

(***************************************************************************)
(* Python str() and repr() of a value                                      *)
(***************************************************************************)
RECURSIVE PyRepr(_)
RECURSIVE JoinRepr(_, _)
RECURSIVE JoinItems(_, _)

\* ", ".join(repr(x) for x in xs[i:])
JoinRepr(xs, i) ==
    IF i > Len(xs) THEN ""
    ELSE PyRepr(xs[i]) \o (IF i < Len(xs) THEN ", " ELSE "") \o JoinRepr(xs, i + 1)

\* ", ".join(repr(k) + ": " + repr(v) for k, v in ps[i:])
JoinItems(ps, i) ==
    IF i > Len(ps) THEN ""
    ELSE "'" \o ps[i][1] \o "': " \o PyRepr(ps[i][2])
         \o (IF i < Len(ps) THEN ", " ELSE "") \o JoinItems(ps, i + 1)

PyRepr(v) ==
    CASE v.t = "null" -> "None"
      [] v.t = "str"  -> "'" \o v.s \o "'"
      [] v.t = "num"  -> ToString(v.n)
      [] v.t = "list" -> "[" \o JoinRepr(v.l, 1) \o "]"
      [] v.t = "map"  -> "{" \o JoinItems(v.m, 1) \o "}"

PyStr(v) == IF IsStr(v) THEN v.s ELSE PyRepr(v)

(***************************************************************************)
(* QSSProcessor                                                            *)
(***************************************************************************)
\* the characters of [A-Za-z0-9_]
IdentChars ==
    { "A", "B", "C", "D", "E", "F", "G", "H", "I", "J", "K", "L", "M",
      "N", "O", "P", "Q", "R", "S", "T", "U", "V", "W", "X", "Y", "Z",
      "a", "b", "c", "d", "e", "f", "g", "h", "i", "j", "k", "l", "m",
      "n", "o", "p", "q", "r", "s", "t", "u", "v", "w", "x", "y", "z",
      "0", "1", "2", "3", "4", "5", "6", "7", "8", "9", "_" }

\* sorted(keys, key=len, reverse=True): a stable sort, longest first
RECURSIVE InsertByLen(_, _)
InsertByLen(sorted, k) ==
    IF sorted = <<>> THEN <<k>>
    ELSE IF Len(Head(sorted)) >= Len(k)
         THEN <<Head(sorted)>> \o InsertByLen(Tail(sorted), k)
         ELSE <<k>> \o sorted

RECURSIVE SortedKeys(_, _)
SortedKeys(ps, n) ==
    IF n = 0 THEN <<>> ELSE InsertByLen(SortedKeys(ps, n - 1), ps[n][1])

\* _compile_pattern: the alternatives of the pattern in order; <<>> is
\* self._pattern = None
compile_pattern(variables) == SortedKeys(variables, Len(variables))

\* (?<![A-Za-z0-9_]) at position i
LookBehind(text, i) == i = 1 \/ Char(text, i - 1) \notin IdentChars

\* (?![A-Za-z0-9_]) at position j, the position after the match
LookAhead(text, j) == j > Len(text) \/ Char(text, j) \notin IdentChars

\* alternative k at position i without the trailing (?![A-Za-z0-9_])
MatchesAtNoAhead(text, i, k) ==
    /\ i + Len(k) - 1 <= Len(text)
    /\ SubSeq(text, i, i + Len(k) - 1) = k

\* alternative k matches at position i
MatchesAt(text, i, k) ==
    /\ i + Len(k) - 1 <= Len(text)
    /\ SubSeq(text, i, i + Len(k) - 1) = k
    /\ LookAhead(text, i + Len(k))

\* self._pattern.sub(_repl, qss_content) from position i on: the leftmost
\* match, its first matching alternative, replaced by str(variables.get(key, key))
RECURSIVE SubFrom(_, _, _, _)
SubFrom(pat, variables, text, i) ==
    IF i > Len(text) THEN ""
    ELSE LET hits == {n \in DOMAIN pat : MatchesAt(text, i, pat[n])} IN
         IF LookBehind(text, i) /\ hits /= {}
         THEN LET key == pat[CHOOSE n \in hits : \A m \in hits : n <= m] IN
              PyStr(GetOr(variables, key, S(key)))
                  \o SubFrom(pat, variables, text, i + Len(key))
         ELSE Char(text, i) \o SubFrom(pat, variables, text, i + 1)

\* apply_to_string with the pat and the variables the processor holds
apply_to_string(pat, variables, qss_content) ==
    IF pat = <<>> THEN qss_content
    ELSE SubFrom(pat, variables, qss_content, 1)

(***************************************************************************)
(* The files and widgets of the run                                        *)
(***************************************************************************)
Components == {"button", "list_box"}
Groups     == {"controls", "components/controls"}
Themes     == {"Default", "Dark"}
Widgets    == {"w1", "w2"}
TokenNames == {"BtnFg", "Pad"}

\* a Python dict that is only looked up is a function on its keys
EmptyDict == [k \in {} |-> Null]
Store(d, k, v) == (k :> v) @@ d

\* the threads that call into the QSSProcessor
Threads == {"t1", "t2"}

\* a thread that is in no call
IdleThread ==
    [pc |-> "idle", path |-> "", m |-> <<>>, keys |-> <<>>, content |-> "",
     gen |-> 0]

QssIdle ==
    /\ qThread = [t \in Threads |-> IdleThread]
    /\ qGen = 0
    /\ qTag = EmptyDict
    /\ qCalls = 0

\* Path(__file__).parent.parent / "resources" / "common_themeresources_any.yaml"
common_yaml_path == "pylunix/resources/common_themeresources_any.yaml"

\* os.path.join(DIR, components_dir, component_name, f"{component_name}.yaml")
YamlPath(components_dir, component_name) ==
    "pylunix/" \o components_dir \o "/" \o component_name \o "/"
        \o component_name \o ".yaml"

\* Path("pylunix/controls") / component_name / f"{component_name}.qss"
QssPath(component_name) ==
    "pylunix/controls/" \o component_name \o "/" \o component_name \o ".qss"

\* the token documents on disk, as yaml.safe_load parses them; a path that is
\* not listed is a missing file, Null is a file without content
YamlFiles ==
    (common_yaml_path :>
        M(<< <<"Default", M(<< <<"Fg", S("#000000")>>, <<"Bg", S("#FFFFFF")>> >>)>>,
             <<"Dark",    M(<< <<"Fg", S("#FFFFFF")>>, <<"Bg", S("#000000")>> >>)>>,
             <<"Radius",  S("4px")>>,
             <<"Corner",  S("Radius")>> >>))
    @@ (YamlPath("controls", "button") :>
        M(<< <<"BtnFg", S("Fg")>>, <<"BtnBg", S("{Default.Bg}")>> >>))
    @@ (YamlPath("components/controls", "button") :>
        M(<< <<"BtnFg", S("Bg")>>, <<"Pad", Null>> >>))
    @@ (YamlPath("components/controls", "list_box") :>
        M(<< <<"LstFg", S("Fg")>>, <<"BtnFg", S("{Default.Fg}")>>,
             <<"LstRadius", S("Corner")>> >>))

\* the content of a template file that is not UTF-8
Undecodable == "<bytes that are not UTF-8>"

\* the style templates on disk
QssFiles ==
    (QssPath("button") :> "color:BtnFg;bg:BtnBg;")
    @@ ("fallback.qss" :> "r:Radius;c:LstFg;")

\* what a widget does when the registry calls it: "none" is a widget whose
\* methods return; "setStyleSheet" and "updateIcon" name the one method of the
\* widget's class that raises; of a widget whose Qt object has been deleted
\* while Python still refers to it ("deleted") every method raises RuntimeError
FaultKinds == {"none", "setStyleSheet", "updateIcon", "deleted"}

\* hasattr(widget, 'updateIcon')
HasUpdateIcon(w) == w = "w1"

\* every widget does what the registry asks of it
WidgetsSound == wFault = [w \in Widgets |-> "none"]

\* os.path.getmtime of a file that exists
FileMTime == 1

\* the token files as the run finds them
YamlDiskInit ==
    /\ yamlDisk = [p \in DOMAIN YamlFiles |->
                      [mtime |-> FileMTime, data |-> YamlFiles[p]]]
    /\ lastMTime = [p \in {YamlPath(g, c) : g \in Groups, c \in Components} |->
                       IF p \in DOMAIN YamlFiles THEN FileMTime ELSE 0]
    /\ mtimesIncrease = TRUE

\* the disk as the run finds it
DiskInit == qssDisk = QssFiles /\ YamlDiskInit

\* ThemeManager._instance = None (line 14)
NoInstance == 0

\* no thread has called get_instance
InstIdle ==
    /\ instance = NoInstance
    /\ managers = <<>>
    /\ giThread = [t \in Threads |->
                      [pc |-> "idle", made |-> NoInstance, got |-> NoInstance,
                       calls |-> 0]]

\* a thread outside load_component; base is instrumentation: the
\* accumulated map when the loop of lines 53-56 began
IdleLoader ==
    [pc |-> "idle", g |-> "", c |-> "", data |-> <<>>, path |-> "", i |-> 0,
     value |-> Null, base |-> <<>>]

\* nobody holds the lock, no thread is in load_component
LockIdle ==
    /\ lkOwner = "free"
    /\ lkThread = [t \in Threads |-> IdleLoader]
    /\ lkCalls = 0
    /\ unguarded = {}
    /\ lkSeen = [what |-> "nothing", partial |-> FALSE]

\* repeat_delay defaults to 400 ms (line 38)
DefaultRepeatDelay == 4

\* repeat_interval defaults to 100 ms (line 39)
DefaultRepeatInterval == 1

\* RepeatButton.__init__: nobody touches the button, the timer is not started
RepeatIdle ==
    /\ rbHeld = FALSE
    /\ rbDown = FALSE
    /\ rbTimer = [active |-> FALSE, interval |-> 0, left |-> 0]
    /\ repeat_delay = DefaultRepeatDelay
    /\ repeat_interval = DefaultRepeatInterval
    /\ rbClicks = 0
    /\ rbPresses = 0
    /\ rbDue = 0
    /\ rbTime = 0
    /\ rbLast = "init"

\* NumberBoxEdit.__init__ with text "" (lines 102-105)
NumberIdle ==
    /\ nbText = ""
    /\ internal_value = Null
    /\ nbLast = [op |-> "init", value |-> Null]

\* ThemeManager.__init__ line 39: QSSProcessor(self.component_resources), the
\* processor holds the manager's own dict
EngineIdle == detached = FALSE /\ tmDict = <<>>

\* nobody is inside _load_file_cached or force_reload.  wrote and paired are
\* instrumentation: the file was written during the call, and every entry
\* stored so far holds the modification time of the version it was read from
ReloadIdle ==
    rlLocal = [pc |-> "idle", path |-> "", mtime |-> 0, data |-> Null,
               readAt |-> 0, wrote |-> FALSE, paired |-> TRUE]

\* neither thread is in a call.  calls counts the calls begun; overlapped is
\* instrumentation: a register was under way when a set_theme changed the
\* theme, or the other way round
RaceIdle ==
    /\ rcReg = [pc |-> "idle", w |-> "", c |-> "", data |-> <<>>, path |-> "",
                calls |-> 0, raised |-> FALSE, overlapped |-> FALSE]
    /\ rcSw = [pc |-> "idle", todo |-> <<>>, calls |-> 0, raised |-> FALSE]

\* the two locks: ThemeManager._CACHE_LOCK (theme_manager.py:15) and
\* _CACHE_LOCK of yaml_util.py (line 8)
Locks == {"TM", "FILE"}

\* no thread is in a call, both locks are free
OrderIdle ==
    /\ loThread = [t \in Threads |-> [prog |-> <<>>, calls |-> 0]]
    /\ loOwner = [l \in Locks |-> "free"]
    /\ loCount = [l \in Locks |-> 0]

LateIdle == NumberIdle /\ EngineIdle /\ ReloadIdle /\ RaceIdle /\ OrderIdle

ProcIdle == InstIdle /\ LockIdle /\ RepeatIdle /\ LateIdle

\* the state of what Spec, SpecResolve, SpecExpand and SpecQss never touch
ExtIdle == DiskInit /\ WidgetsSound /\ ProcIdle

\* widget.property("qss_path"): "" when the widget has no such property
QssPathProperty(w) == IF w = "w2" THEN "fallback.qss" ELSE ""


(***************************************************************************)
(* The state the calls act on, as one record                               *)
(***************************************************************************)
Cur ==
    [ theme |-> theme,
      RESOLVED_CACHE |-> RESOLVED_CACHE,
      RAW_DATA_CACHE |-> RAW_DATA_CACHE,
      LOADED_COMPONENTS |-> LOADED_COMPONENTS,
      component_resources |-> component_resources,
      pattern |-> pattern,
      template_cache |-> template_cache,
      processed_cache |-> processed_cache,
      FILE_CACHE |-> FILE_CACHE,
      widgets |-> widgets,
      existing_qss_paths |-> existing_qss_paths,
      missing_qss_components |-> missing_qss_components,
      styleSheet |-> styleSheet,
      restyled |-> restyled,
      refreshed |-> refreshed,
      qss_files |-> qssDisk,
      yaml_files |-> yamlDisk,
      fault |-> wFault,
      resolveLog |-> resolveLog,
      switched |-> switched ]

\* the state a call starts from
Begin == [Cur EXCEPT !.restyled = {}, !.refreshed = {}]

Becomes(st) ==
    /\ theme' = st.theme
    /\ RESOLVED_CACHE' = st.RESOLVED_CACHE
    /\ RAW_DATA_CACHE' = st.RAW_DATA_CACHE
    /\ LOADED_COMPONENTS' = st.LOADED_COMPONENTS
    /\ component_resources' = st.component_resources
    /\ pattern' = st.pattern
    /\ template_cache' = st.template_cache
    /\ processed_cache' = st.processed_cache
    /\ FILE_CACHE' = st.FILE_CACHE
    /\ widgets' = st.widgets
    /\ existing_qss_paths' = st.existing_qss_paths
    /\ missing_qss_components' = st.missing_qss_components
    /\ styleSheet' = st.styleSheet
    /\ restyled' = st.restyled
    /\ refreshed' = st.refreshed
    /\ resolveLog' = st.resolveLog
    /\ switched' = st.switched

(***************************************************************************)
(* YAMLProcessor: the file cache                                           *)
(***************************************************************************)
\* _get_mtime: 0.0 when os.path.getmtime raises
get_mtime(st, path) ==
    IF path \in DOMAIN st.yaml_files THEN st.yaml_files[path].mtime ELSE 0

\* _load_file_cached that never looks at the modification time again
load_file_cached_forever(st, path) ==
    IF path \in DOMAIN st.FILE_CACHE
    THEN [st |-> st, data |-> st.FILE_CACHE[path].data]
    ELSE LET data == IF path \in DOMAIN st.yaml_files
                        /\ Truthy(st.yaml_files[path].data)
                     THEN st.yaml_files[path].data
                     ELSE EmptyDoc
         IN  [st   |-> [st EXCEPT !.FILE_CACHE =
                            Store(@, path, [mtime |-> get_mtime(st, path),
                                            data |-> data])],
              data |-> data]

\* _load_file_cached: [st, data]
load_file_cached(st, path) ==
    LET mtime == get_mtime(st, path) IN
    IF path \in DOMAIN st.FILE_CACHE /\ st.FILE_CACHE[path].mtime = mtime
    THEN [st |-> st, data |-> st.FILE_CACHE[path].data]
    ELSE LET data == IF path \in DOMAIN st.yaml_files
                        /\ Truthy(st.yaml_files[path].data)
                     THEN st.yaml_files[path].data
                     ELSE EmptyDoc
         IN  [st   |-> [st EXCEPT !.FILE_CACHE =
                            Store(@, path, [mtime |-> mtime, data |-> data])],
              data |-> data]

\* YAMLProcessor(path): self.data = _load_file_cached(path) or {}
YAMLProcessor(st, path) ==
    LET WithFile(r) ==
            [st |-> r.st, data |-> IF Truthy(r.data) THEN r.data ELSE EmptyDoc]
    IN  WithFile(load_file_cached(st, path))

(***************************************************************************)
(* ThemeManager                                                            *)
(***************************************************************************)
\* _COMMON_DICT_CACHE, set once by __init__: yaml_to_dict() of the common file
COMMON_DICT_CACHE == YamlFiles[common_yaml_path].m

\* lines 79-87 of get_resolved_data_and_path: resolve the component document
\* against self.theme and cache the result; resolveLog counts the calls of
\* resolve per document since the last change of theme
ResolveAndCache(st, components_dir, component_name) ==
    LET yaml_path == YamlPath(components_dir, component_name)
        Cached(st2, resolved_data) ==
            [st   |-> [st2 EXCEPT
                         !.RESOLVED_CACHE =
                             Store(@, component_name,
                                   [data |-> resolved_data, path |-> yaml_path]),
                         !.resolveLog =
                             Store(@, yaml_path,
                                   (IF yaml_path \in DOMAIN @ THEN @[yaml_path] ELSE 0) + 1)],
             data |-> resolved_data,
             path |-> yaml_path]
        WithComp(process, comp) ==
            Cached(comp.st, resolve(process.data, comp.data, st.theme))
        WithProcessor(process) ==
            WithComp(process, load_file_cached(process.st, yaml_path))
    IN  WithProcessor(YAMLProcessor(st, common_yaml_path))

\* get_resolved_data_and_path without the test of lines 75-77
get_resolved_data_and_path_uncached(st, components_dir, component_name) ==
    ResolveAndCache(st, components_dir, component_name)

\* get_resolved_data_and_path: [st, data, path]
get_resolved_data_and_path(st, components_dir, component_name) ==
    IF component_name \in DOMAIN st.RESOLVED_CACHE
    THEN [st   |-> st,
          data |-> st.RESOLVED_CACHE[component_name].data,
          path |-> st.RESOLVED_CACHE[component_name].path]
    ELSE ResolveAndCache(st, components_dir, component_name)

\* the lookup in _COMMON_DICT_CACHE repeated while the value is one of its keys
RECURSIVE CommonLookup(_, _)
CommonLookup(value, fuel) ==
    IF fuel > 0 /\ IsStr(value) /\ HasKey(COMMON_DICT_CACHE, value.s)
    THEN CommonLookup(Get(COMMON_DICT_CACHE, value.s), fuel - 1)
    ELSE value

\* get_default_value that follows the common document to the end
get_default_value_recursive(st, yaml_path, name) ==
    LET Answer(st2, raw_data) ==
            [st    |-> st2,
             value |-> CommonLookup(GetOr(raw_data, name, Null),
                                    Len(COMMON_DICT_CACHE))]
        Remember(st2, raw) ==
            Answer([st2 EXCEPT !.RAW_DATA_CACHE = Store(@, yaml_path, raw)], raw)
        WithDict(again) ==
            Remember(again.st, IF Truthy(again.data) THEN again.data.m ELSE <<>>)
        WithProcessor(old_processor) ==
            WithDict(load_file_cached(old_processor.st, yaml_path))
    IN  IF yaml_path \in DOMAIN st.RAW_DATA_CACHE
        THEN Answer(st, st.RAW_DATA_CACHE[yaml_path])
        ELSE WithProcessor(YAMLProcessor(st, yaml_path))

\* get_default_value: [st, value]
get_default_value(st, yaml_path, name) ==
    LET Answer(st2, raw_data) ==
            LET value == GetOr(raw_data, name, Null) IN
            [st    |-> st2,
             value |-> IF IsStr(value)
                       THEN GetOr(COMMON_DICT_CACHE, value.s, value)
                       ELSE value]
        Remember(st2, raw) ==
            Answer([st2 EXCEPT !.RAW_DATA_CACHE = Store(@, yaml_path, raw)], raw)
        WithDict(again) ==
            Remember(again.st, IF Truthy(again.data) THEN again.data.m ELSE <<>>)
        WithProcessor(old_processor) ==
            WithDict(load_file_cached(old_processor.st, yaml_path))
    IN  IF yaml_path \in DOMAIN st.RAW_DATA_CACHE
        THEN Answer(st, st.RAW_DATA_CACHE[yaml_path])
        ELSE WithProcessor(YAMLProcessor(st, yaml_path))

\* set_variables that keeps the expanded texts
set_variables_keeping_cache(st) ==
    [st EXCEPT !.pattern = compile_pattern(st.component_resources)]

\* QSSProcessor.set_variables(self.component_resources)
set_variables(st) ==
    [st EXCEPT !.pattern = compile_pattern(st.component_resources),
               !.processed_cache = EmptyDict]

\* the loop of load_component (lines 53-56) from item i on
RECURSIVE MergeFrom(_, _, _, _)
MergeFrom(st, resolved_data, yaml_path, i) ==
    IF i > Len(resolved_data) THEN st
    ELSE LET name  == resolved_data[i][1]
             value == resolved_data[i][2]
             Assign(st2, v) ==
                 MergeFrom([st2 EXCEPT !.component_resources = Put(@, name, v)],
                           resolved_data, yaml_path, i + 1)
             Defaulted(dflt) == Assign(dflt.st, dflt.value)
         IN  IF IsNull(value)
             THEN Defaulted(get_default_value(st, yaml_path, name))
             ELSE Assign(st, value)

\* load_component that starts the accumulated map again from the common
\* document
load_component_replacing(st, components_dir, component_name) ==
    IF component_name \in st.LOADED_COMPONENTS
    THEN [st |-> st, raised |-> FALSE]
    ELSE LET Merged(r) ==
                 [st     |-> [set_variables(
                                 MergeFrom([r.st EXCEPT !.component_resources =
                                                COMMON_DICT_CACHE],
                                           r.data, r.path, 1))
                                 EXCEPT !.LOADED_COMPONENTS = @ \cup {component_name}],
                  raised |-> DOMAIN r.data = {}]
         IN  Merged(get_resolved_data_and_path(st, components_dir, component_name))

\* load_component: [st, raised]; `return value` raises UnboundLocalError when
\* the loop over resolved_data.items() never ran
load_component(st, components_dir, component_name) ==
    IF component_name \in st.LOADED_COMPONENTS
    THEN [st |-> st, raised |-> FALSE]
    ELSE LET Merged(r) ==
                 [st     |-> [set_variables(MergeFrom(r.st, r.data, r.path, 1))
                                 EXCEPT !.LOADED_COMPONENTS = @ \cup {component_name}],
                  raised |-> DOMAIN r.data = {}]
         IN  Merged(get_resolved_data_and_path(st, components_dir, component_name))

(***************************************************************************)
(* QSSProcessor: files                                                     *)
(***************************************************************************)
\* _read_template that answers a missing file with an empty template
read_template_tolerant(st, qss_path) ==
    IF qss_path \in DOMAIN st.template_cache
    THEN [st |-> st, content |-> st.template_cache[qss_path], raised |-> FALSE]
    ELSE LET content == IF qss_path \in DOMAIN st.qss_files
                        THEN st.qss_files[qss_path] ELSE ""
         IN  [st |-> [st EXCEPT !.template_cache = Store(@, qss_path, content)],
              content |-> content,
              raised  |-> FALSE]

\* _read_template that goes to the file on every call
read_template_rereading(st, qss_path) ==
    IF qss_path \notin DOMAIN st.qss_files
       \/ st.qss_files[qss_path] = Undecodable
    THEN [st |-> st, content |-> "", raised |-> TRUE]
    ELSE [st |-> [st EXCEPT !.template_cache =
                      Store(@, qss_path, st.qss_files[qss_path])],
          content |-> st.qss_files[qss_path],
          raised  |-> FALSE]

\* _read_template: [st, content, raised]; FileNotFoundError when the file is
\* neither cached nor on disk, UnicodeDecodeError of read_text when its bytes
\* are not UTF-8
read_template(st, qss_path) ==
    IF qss_path \in DOMAIN st.template_cache
    THEN [st |-> st, content |-> st.template_cache[qss_path], raised |-> FALSE]
    ELSE IF qss_path \notin DOMAIN st.qss_files
            \/ st.qss_files[qss_path] = Undecodable
         THEN [st |-> st, content |-> "", raised |-> TRUE]
         ELSE [st |-> [st EXCEPT !.template_cache =
                           Store(@, qss_path, st.qss_files[qss_path])],
               content |-> st.qss_files[qss_path],
               raised  |-> FALSE]

\* get_processed_stylesheet (apply_to_file): [st, content, raised]
get_processed_stylesheet(st, qss_path) ==
    IF qss_path \in DOMAIN st.processed_cache
    THEN [st |-> st, content |-> st.processed_cache[qss_path], raised |-> FALSE]
    ELSE LET Kept(st2, processed_content) ==
                 [st |-> [st2 EXCEPT !.processed_cache =
                              Store(@, qss_path, processed_content)],
                  content |-> processed_content,
                  raised  |-> FALSE]
             Expanded(t) ==
                 IF t.raised THEN [st |-> t.st, content |-> "", raised |-> TRUE]
                 ELSE Kept(t.st, apply_to_string(t.st.pattern,
                                                 t.st.component_resources,
                                                 t.content))
         IN  Expanded(read_template(st, qss_path))

(***************************************************************************)
(* WidgetRegistry                                                          *)
(***************************************************************************)
\* _get_qss_path: [st, qss_path]; "" is None
get_qss_path(st, component_name) ==
    IF component_name = "" THEN [st |-> st, qss_path |-> ""]
    ELSE IF component_name \in DOMAIN st.existing_qss_paths
         THEN [st |-> st, qss_path |-> st.existing_qss_paths[component_name]]
    ELSE IF component_name \in st.missing_qss_components
         THEN [st |-> st, qss_path |-> ""]
    ELSE IF QssPath(component_name) \in DOMAIN st.qss_files
         THEN [st |-> [st EXCEPT !.existing_qss_paths =
                           Store(@, component_name, QssPath(component_name))],
               qss_path |-> QssPath(component_name)]
         ELSE [st |-> [st EXCEPT !.missing_qss_components =
                           @ \cup {component_name}],
               qss_path |-> ""]

\* the body register and update_all share (register lines 43-63, update_all
\* lines 73-96): the component's template first, then the widget's qss_path
\* property: [st, raised].  What apply_to_file or setStyleSheet raises is
\* caught and logged; widget.property("qss_path") is called outside the try
\* blocks (lines 54 and 84)
ApplyStyle(st, widget, component_name) ==
    LET qss_path_prop == QssPathProperty(widget)
        \* try: apply_to_file; widget.setStyleSheet; applied = True
        Tried(r) ==
            IF r.raised \/ r.st.fault[widget] \in {"setStyleSheet", "deleted"}
            THEN [st |-> r.st, applied |-> FALSE]
            ELSE [st |-> [r.st EXCEPT !.styleSheet[widget] = r.content,
                                      !.restyled = @ \cup {widget}],
                  applied |-> TRUE]
        Done(a) == [st |-> a.st, raised |-> FALSE]
        FromProperty(st2) ==
            IF st2.fault[widget] = "deleted"
            THEN [st |-> st2, raised |-> TRUE]
            ELSE IF qss_path_prop /= "" /\ qss_path_prop \in DOMAIN st2.qss_files
                 THEN Done(Tried(get_processed_stylesheet(st2, qss_path_prop)))
                 ELSE [st |-> st2, raised |-> FALSE]
        FromComponent(a) ==
            IF a.applied THEN Done(a) ELSE FromProperty(a.st)
        Located(p) ==
            IF p.qss_path /= ""
            THEN FromComponent(Tried(get_processed_stylesheet(p.st, p.qss_path)))
            ELSE FromProperty(p.st)
    IN  Located(get_qss_path(st, component_name))

\* a WeakKeyDictionary without the entry of k
Remove(ps, k) == SelectSeq(ps, LAMBDA p : p[1] /= k)

\* WidgetRegistry.register that keeps the association only of a widget it
\* has styled
registry_register_if_styled(st, widget, component_name) ==
    IF HasKey(st.widgets, widget)
    THEN [st |-> [st EXCEPT !.widgets = Put(@, widget, component_name)],
          raised |-> FALSE]
    ELSE LET Kept(r) ==
                 IF widget \in r.st.restyled THEN r
                 ELSE [st |-> [r.st EXCEPT !.widgets = Remove(@, widget)],
                       raised |-> r.raised]
         IN  Kept(ApplyStyle([st EXCEPT !.widgets = Put(@, widget, component_name)],
                             widget, component_name))

\* WidgetRegistry.register: [st, raised]
registry_register(st, widget, component_name) ==
    IF HasKey(st.widgets, widget)
    THEN [st |-> [st EXCEPT !.widgets = Put(@, widget, component_name)],
          raised |-> FALSE]
    ELSE ApplyStyle([st EXCEPT !.widgets = Put(@, widget, component_name)],
                    widget, component_name)

\* lines 98-102 of update_all: the icon refresh of a widget that has one; what
\* updateIcon raises is caught and logged
RefreshIcon(st, widget) ==
    IF HasUpdateIcon(widget)
    THEN [st EXCEPT !.refreshed = @ \cup {widget}]
    ELSE st

\* the loop of update_all over list(self._widgets.items()) from item i on:
\* [st, raised]; an exception that is not caught ends it
RECURSIVE UpdateFrom(_, _, _)
UpdateFrom(st, items, i) ==
    IF i > Len(items) THEN [st |-> st, raised |-> FALSE]
    ELSE LET Styled(r) ==
                 IF r.raised THEN r
                 ELSE UpdateFrom(RefreshIcon(r.st, items[i][1]), items, i + 1)
         IN  Styled(ApplyStyle(st, items[i][1], items[i][2]))

\* WidgetRegistry.update_all: [st, raised]
update_all(st) == UpdateFrom(st, st.widgets, 1)

(***************************************************************************)
(* ThemeManager: the calls                                                 *)
(***************************************************************************)
\* ThemeManager.register: [st, raised]
register(st, widget, components_dir, component_name) ==
    LET Loaded(r) ==
            IF r.raised THEN r
            ELSE registry_register(r.st, widget, component_name)
    IN  Loaded(load_component(st, components_dir, component_name))

\* ThemeManager.get_resolved_value: [st, value]
get_resolved_value(st, name, components_dir, component_name) ==
    LET Found(r) ==
            LET value == GetOr(r.data, name, Null) IN
            IF IsNull(value)
            THEN get_default_value(r.st, r.path, name)
            ELSE [st |-> r.st, value |-> value]
    IN  Found(get_resolved_data_and_path(st, components_dir, component_name))

\* the loop of set_theme (lines 115-116) over components_to_reload from item i
\* on: [st, raised]; an exception of load_component ends it
RECURSIVE ReloadFrom(_, _, _)
ReloadFrom(st, components_to_reload, i) ==
    IF i > Len(components_to_reload) THEN [st |-> st, raised |-> FALSE]
    ELSE LET Reloaded(r) ==
                 IF r.raised THEN r
                 ELSE ReloadFrom(r.st, components_to_reload, i + 1)
         IN  Reloaded(load_component(st, "controls", components_to_reload[i]))

\* set_theme when the theme differs (lines 108-118): [st, raised, updated];
\* components_to_reload is list(self._LOADED_COMPONENTS), whose order is the
\* set's iteration order
ChangeTheme(st, new_theme, components_to_reload) ==
    LET Updated(u) ==
            [st |-> [u.st EXCEPT !.switched = ~u.raised],
             raised |-> u.raised, updated |-> TRUE]
        Reloaded(r) ==
            IF r.raised
            THEN [st |-> [r.st EXCEPT !.switched = FALSE],
                  raised |-> TRUE, updated |-> FALSE]
            ELSE Updated(update_all(r.st))
    IN  Reloaded(ReloadFrom([st EXCEPT !.theme = new_theme,
                                       !.RESOLVED_CACHE = EmptyDict,
                                       !.LOADED_COMPONENTS = {},
                                       !.resolveLog = EmptyDict],
                            components_to_reload, 1))

\* set_theme without the test of lines 106-107
set_theme_unconditional(st, new_theme, components_to_reload) ==
    ChangeTheme(st, new_theme, components_to_reload)

\* ThemeManager.set_theme: [st, raised, updated]
set_theme(st, new_theme, components_to_reload) ==
    IF st.theme = new_theme
    THEN [st |-> st, raised |-> FALSE, updated |-> FALSE]
    ELSE ChangeTheme(st, new_theme, components_to_reload)

\* the orders in which a set can be iterated
Orders(set) ==
    {o \in [1..Cardinality(set) -> set] : \A x \in set : \E i \in DOMAIN o : o[i] = x}

(***************************************************************************)
(* Spec: the calls of a client, one after another                          *)
(***************************************************************************)
\* the bound on the number of calls in a run
MaxOps == 4

\* lastOp: the call, whether it raised, whether it ran update_all, whether the
\* resolved map came from RESOLVED_CACHE, and the value it returned
NoOp ==
    [op |-> "init", raised |-> FALSE, updated |-> FALSE, hit |-> FALSE,
     value |-> Null, path |-> "", c |-> "", w |-> "", name |-> ""]

\* the state after ThemeManager.__init__ (theme_manager.py lines 29-39)
TMInit ==
    /\ theme = "Default"
    /\ RESOLVED_CACHE = EmptyDict
    /\ RAW_DATA_CACHE = EmptyDict
    /\ LOADED_COMPONENTS = {}
    /\ component_resources = COMMON_DICT_CACHE
    /\ pattern = compile_pattern(COMMON_DICT_CACHE)
    /\ template_cache = EmptyDict
    /\ processed_cache = EmptyDict
    /\ FILE_CACHE = (common_yaml_path :>
                        [mtime |-> FileMTime, data |-> YamlFiles[common_yaml_path]])
    /\ widgets = <<>>
    /\ existing_qss_paths = EmptyDict
    /\ missing_qss_components = {}
    /\ styleSheet = [w \in Widgets |-> ""]
    /\ alive = Widgets
    /\ restyled = {}
    /\ refreshed = {}
    /\ resolveLog = EmptyDict
    /\ switched = FALSE
    /\ lastOp = NoOp
    /\ nOps = 0

\* a widget's constructor calls theme_manager.register(widget, dir, name)
Called == nOps < MaxOps /\ nOps' = nOps + 1

Register(w, g, c) ==
    /\ Called
    /\ w \in alive
    /\ \E r \in {register(Begin, w, g, c)} :
       /\ Becomes(r.st)
       /\ lastOp' = [NoOp EXCEPT !.op = "register", !.w = w, !.c = c,
                                 !.raised = r.raised]
    /\ UNCHANGED <<alive, resolveVars, expandVars, qssVars, extVars>>

GetResolvedValue(n, g, c) ==
    /\ Called
    /\ \E r \in {get_resolved_value(Begin, n, g, c)} :
       /\ Becomes(r.st)
       /\ lastOp' = [NoOp EXCEPT !.op = "get_resolved_value", !.c = c,
                                 !.hit = c \in DOMAIN RESOLVED_CACHE,
                                 !.value = r.value]
    /\ UNCHANGED <<alive, resolveVars, expandVars, qssVars, extVars>>

SetTheme(t) ==
    /\ Called
    /\ \E order \in Orders(LOADED_COMPONENTS) :
       \E r \in {set_theme(Begin, t, order)} :
         /\ Becomes(r.st)
         /\ lastOp' = [NoOp EXCEPT !.op = "set_theme", !.raised = r.raised,
                                   !.updated = r.updated]
    /\ UNCHANGED <<alive, resolveVars, expandVars, qssVars, extVars>>

\* the last owner of a widget lets go of it: the WeakKeyDictionary drops its
\* entry
DestroyWidget(w) ==
    /\ Called
    /\ w \in alive
    /\ alive' = alive \ {w}
    /\ widgets' = Remove(widgets, w)
    /\ styleSheet' = [styleSheet EXCEPT ![w] = ""]
    /\ restyled' = {}
    /\ refreshed' = {}
    /\ lastOp' = [NoOp EXCEPT !.op = "destroy"]
    /\ UNCHANGED <<theme, RESOLVED_CACHE, RAW_DATA_CACHE, LOADED_COMPONENTS,
                   component_resources, pattern, template_cache, processed_cache,
                   FILE_CACHE, existing_qss_paths, missing_qss_components,
                   resolveLog, switched, resolveVars, expandVars, qssVars,
                   extVars>>

Next ==
    \/ \E w \in Widgets, g \in Groups, c \in Components : Register(w, g, c)
    \/ \E n \in TokenNames, g \in Groups, c \in Components : GetResolvedValue(n, g, c)
    \/ \E t \in Themes : SetTheme(t)
    \/ \E w \in Widgets : DestroyWidget(w)

\* the state after ThemeManager.__init__, nothing else having been called
Init == TMInit /\ ResolveIdle /\ ExpandIdle /\ QssIdle /\ ExtIdle

Spec == Init /\ [][Next]_vars

(***************************************************************************)
(* Claims about ThemeManager                                               *)
(***************************************************************************)
\* the token document at <group>/<name>/<name>.yaml as a reader finds it
DocumentAt(path) ==
    IF path \in DOMAIN YamlFiles /\ Truthy(YamlFiles[path])
    THEN YamlFiles[path]
    ELSE EmptyDoc

DocumentOf(g, c) == DocumentAt(YamlPath(g, c))

\* the value of entry n of <g>/<c>/<c>.yaml resolved against theme t, with the
\* fallback of get_resolved_value for a null entry
ExpectedValue(n, g, c, t) ==
    LET doc == DocumentOf(g, c)
        v   == GetOr(resolve(YamlFiles[common_yaml_path], doc, t), n, Null)
        raw == GetOr(doc.m, n, Null)
    IN  IF ~IsNull(v) THEN v
        ELSE IF IsStr(raw) THEN GetOr(COMMON_DICT_CACHE, raw.s, raw) ELSE raw

\* C1 as stated: once a set_theme that changed the theme has returned,
\* get_resolved_value(name, group, component) returns the value of that entry
\* of the component's document resolved against the active theme's namespace.
C1_ResolvedAgainstNewTheme ==
    [][\A n \in TokenNames, g \in Groups, c \in Components :
          (GetResolvedValue(n, g, c) /\ switched)
              => lastOp'.value = ExpectedValue(n, g, c, theme)]_vars

\* the template a registered widget is styled with: the component's, or else
\* the one its qss_path property names; "" when it has neither
TemplateOf(w, c) ==
    IF QssPath(c) \in DOMAIN QssFiles THEN QssFiles[QssPath(c)]
    ELSE IF QssPathProperty(w) \in DOMAIN QssFiles
         THEN QssFiles[QssPathProperty(w)]
         ELSE ""

HasTemplate(w, c) ==
    QssPath(c) \in DOMAIN QssFiles \/ QssPathProperty(w) \in DOMAIN QssFiles

\* the expansion of a text under a token map
Expansion(text, map) == apply_to_string(compile_pattern(map), map, text)

\* C2: when a set_theme that changes the theme returns, every component that
\* was loaded has been reloaded under the new theme, and every registered
\* widget with a template holds the expansion of that template under the
\* accumulated token map as it is after the reload.
C2_RestyledAfterReload ==
    [][\A t \in Themes :
          (SetTheme(t) /\ t /= theme /\ ~lastOp'.raised) =>
              /\ lastOp'.updated
              /\ \A c \in LOADED_COMPONENTS :
                    /\ c \in LOADED_COMPONENTS'
                    /\ c \in DOMAIN RESOLVED_CACHE'
                    /\ RESOLVED_CACHE'[c].data =
                          resolve(YamlFiles[common_yaml_path],
                                  DocumentAt(RESOLVED_CACHE'[c].path), t)
              /\ \A i \in DOMAIN widgets' :
                    LET w == widgets'[i][1]
                        c == widgets'[i][2]
                    IN  HasTemplate(w, c) =>
                            styleSheet'[w] =
                                Expansion(TemplateOf(w, c), component_resources')]_vars

\* C2 witness: w1 is registered under button, the theme has been switched to
\* Dark by a set_theme that ran update_all, and w1 shows the Dark expansion.
C2_Witness ==
    /\ lastOp.op = "set_theme" /\ lastOp.updated
    /\ theme = "Dark"
    /\ "button" \in LOADED_COMPONENTS
    /\ HasKey(widgets, "w1") /\ Get(widgets, "w1") = "button"
    /\ styleSheet["w1"] = "color:#FFFFFF;bg:#FFFFFF;"

\* C3 as stated: register for a component whose token document is missing or
\* empty returns without raising, adds nothing to the accumulated token map,
\* and ends with the widget bound to the component.
C3_EmptyDocumentTolerated ==
    [][\A w \in Widgets, g \in Groups, c \in Components :
          (Register(w, g, c) /\ DocumentOf(g, c) = EmptyDoc) =>
              /\ ~lastOp'.raised
              /\ component_resources' = component_resources
              /\ HasKey(widgets', w) /\ Get(widgets', w) = c]_vars

\* C4 as stated: a set_theme that changes the theme ends with the same set of
\* loaded components it began with.
C4_LoadedSetPreserved ==
    [][\A t \in Themes :
          (SetTheme(t) /\ t /= theme)
              => LOADED_COMPONENTS' = LOADED_COMPONENTS]_vars

\* C5: set_theme with the theme that is already active changes nothing and
\* does not run update_all.
C5_SameThemeNoOp ==
    [][\A t \in Themes :
          (SetTheme(t) /\ t = theme) =>
              /\ ~lastOp'.updated /\ ~lastOp'.raised
              /\ UNCHANGED <<theme, RESOLVED_CACHE, RAW_DATA_CACHE,
                             LOADED_COMPONENTS, component_resources, pattern,
                             template_cache, processed_cache, FILE_CACHE,
                             widgets, existing_qss_paths,
                             missing_qss_components, styleSheet>>]_vars

\* C5 witness: set_theme was called with the active theme while a component
\* was loaded, a widget registered and an expansion cached.
C5_Witness ==
    /\ lastOp.op = "set_theme" /\ ~lastOp.updated /\ ~lastOp.raised
    /\ LOADED_COMPONENTS /= {}
    /\ widgets /= <<>>
    /\ DOMAIN processed_cache /= {}
    /\ DOMAIN RESOLVED_CACHE /= {}

\* C6: while the theme does not change, a component's resolved map stays the
\* one that was first returned, every later request for it is answered with
\* that map, and resolve runs at most once per component document.
C6_ResolvedOnce ==
    /\ [](\A p \in DOMAIN resolveLog : resolveLog[p] <= 1)
    /\ [][theme' = theme =>
            \A c \in DOMAIN RESOLVED_CACHE, g \in Groups :
                get_resolved_data_and_path(Cur', g, c).data
                    = RESOLVED_CACHE[c].data]_vars

\* C6 witness: a get_resolved_value was answered from the resolved-map cache
\* after the one resolution of the document.
C6_Witness ==
    /\ lastOp.op = "get_resolved_value" /\ lastOp.hit
    /\ lastOp.value = S("#000000")
    /\ resolveLog = (YamlPath("controls", "button") :> 1)

\* the step is a call that uses component c: a widget is registered under it
\* or a value is requested for it
UsesComponent(c) ==
    /\ nOps' = nOps + 1
    /\ lastOp'.op \in {"register", "get_resolved_value"} /\ lastOp'.c = c

\* the names of the resolved map of component c
ResolvedNames(cache, c) ==
    IF c \in DOMAIN cache THEN Keys(cache[c].data) ELSE {}

\* C15 as stated: a component is loaded (in the loaded-component set, the
\* names of its resolved map keys of the accumulated map) from the first
\* register or get_resolved_value that uses it, and it leaves the loaded set
\* only in a set_theme.
C15_LoadedOnFirstUse ==
    [][/\ \A c \in Components :
             UsesComponent(c) =>
                 /\ c \in LOADED_COMPONENTS'
                 /\ ResolvedNames(RESOLVED_CACHE', c)
                        \subseteq Keys(component_resources')
       /\ \A c \in LOADED_COMPONENTS :
             c \notin LOADED_COMPONENTS' => lastOp'.op = "set_theme"]_vars

\* the non-null entries <<name, value>> of the resolved map of component c
ResolvedEntries(cache, c) ==
    IF c \in DOMAIN cache
    THEN {cache[c].data[i] : i \in {j \in DOMAIN cache[c].data :
                                       ~IsNull(cache[c].data[j][2])}}
    ELSE {}

\* C16 as stated: while a component is loaded, the accumulated map maps every
\* name of its resolved map to the component's resolved value, whatever other
\* components have been loaded since.
C16_TokensKeepTheirValue ==
    \A c \in LOADED_COMPONENTS :
        \A e \in ResolvedEntries(RESOLVED_CACHE, c) :
            HasKey(component_resources, e[1])
                /\ Get(component_resources, e[1]) = e[2]

\* C16 amended: no step removes a key from the accumulated map; the load of a
\* component maps every name of its resolved map to its resolved value; and
\* in a step that does not change the theme a name changes its value only
\* when the step loads a component whose resolved map has that name.
C16_TokensKeptUntilOverwritten ==
    [][/\ Keys(component_resources) \subseteq Keys(component_resources')
       /\ theme' = theme =>
            /\ \A c \in LOADED_COMPONENTS' \ LOADED_COMPONENTS :
                  /\ ResolvedNames(RESOLVED_CACHE', c)
                         \subseteq Keys(component_resources')
                  /\ \A e \in ResolvedEntries(RESOLVED_CACHE', c) :
                         Get(component_resources', e[1]) = e[2]
            /\ \A n \in Keys(component_resources) :
                  Get(component_resources', n) /= Get(component_resources, n)
                      => \E c \in LOADED_COMPONENTS' \ LOADED_COMPONENTS :
                            n \in ResolvedNames(RESOLVED_CACHE', c)]_vars

\* C16 witness: button and list_box are loaded, list_box after button; BtnFg,
\* which both define, has the value of list_box, and BtnBg, which only button
\* defines, still has the value of button.
C16_Witness ==
    /\ LOADED_COMPONENTS = {"button", "list_box"}
    /\ lastOp.op = "register" /\ lastOp.c = "list_box" /\ ~lastOp.raised
    /\ HasKey(component_resources, "BtnFg")
    /\ HasKey(component_resources, "BtnBg")
    /\ <<"BtnFg", Get(component_resources, "BtnFg")>>
           \in ResolvedEntries(RESOLVED_CACHE, "list_box")
    /\ <<"BtnFg", Get(component_resources, "BtnFg")>>
           \notin ResolvedEntries(RESOLVED_CACHE, "button")
    /\ <<"BtnBg", Get(component_resources, "BtnBg")>>
           \in ResolvedEntries(RESOLVED_CACHE, "button")

(***************************************************************************)
(* SpecResolve: resolve applied to every input of a bounded family.        *)
(***************************************************************************)
\* base/common documents
BaseRich ==
    M(<< <<"Default", M(<< <<"Accent",  S("#FF0000")>>,
                           <<"Link",    S("Accent")>>,
                           <<"Ref",     S("{Default.Accent}")>>,
                           <<"Nothing", Null>>,
                           <<"Size",    N(4)>>,
                           <<"Sub",     M(<< <<"Deep", S("#123456")>> >>)>> >>)>>,
         <<"Dark",    M(<< <<"Accent",  S("#AA0000")>>,
                           <<"Hollow",  Null>> >>)>>,
         <<"Palette", M(<< <<"Dotted",  S("Sub.Deep")>>,
                           <<"Void",    S("Hollow")>>,
                           <<"List",    L(<<S("a"), S("b")>>)>> >>)>> >>)

BaseExample == M(<< <<"Default", M(<< <<"Accent", S("#FF0000")>> >>)>> >>)

BaseThemes ==
    M(<< <<"Themes", M(<< <<"Default", M(<< <<"Accent", S("#0000FF")>> >>)>>,
                          <<"Dark",    S("Accent")>>,
                          <<"Light",   Null>> >>)>>,
         <<"Default", S("Accent")>>,
         <<"Accent",  S("top")>> >>)

BaseDocs == {BaseRich, BaseExample, BaseThemes, EmptyDoc}

ThemeNames == {"Default", "Dark", "Light"}

\* values of a component entry
AttrValues ==
    { S("{Default.Accent}"), S("{Missing.Path}"), S("{Default.Link}"),
      S("{Default.Ref}"), S("{Default.Nothing}"), S("{Default.Size}"),
      S("{Default}"), S("{Default.Accent.More}"), S("{Palette.Dotted}"),
      S("{Palette.Void}"), S("{Palette.List}"), S("{{Default.Accent}}"),
      S("{}"), S("{open"), S("Accent"), S("Hollow"), S("plain"), S("Sub.Deep"),
      S("1.5"), S(""), Null, N(4),
      L(<<S("{Missing.Path}"), S("Accent"), S("plain")>>),
      L(<<S("plain"), S("Accent")>>),
      L(<<S("Hollow"), S("plain")>>),
      L(<<S("{open"), S("plain")>>),
      L(<<>>),
      M(<< <<"a", S("{Missing.Path}")>>, <<"b", S("{open")>> >>),
      M(<< <<"a", S("{Missing.Path}")>>, <<"b", S("{Default.Accent}")>> >>) }

\* component documents: one entry Foo, two entries, and the documents that
\* resolve treats as holding no entry
CompDocs ==
    { M(<< <<"Foo", a>> >>) : a \in AttrValues }
    \cup { M(<< <<"Foo", S("{Missing.Path}")>>, <<"Bar", S("{Default.Accent}")>> >>),
           EmptyDoc, Null, L(<<S("Foo")>>) }

ResolveInit ==
    /\ rBase \in BaseDocs
    /\ rComp \in CompDocs
    /\ rTheme \in ThemeNames
    /\ rOut = NotCalled

\* process = YAMLProcessor(base); process.resolve(path, theme)
ResolveCall ==
    /\ rOut = NotCalled
    /\ rOut' = M(resolve(rBase, rComp, rTheme))
    /\ UNCHANGED <<rBase, rComp, rTheme, expandVars, tmVars, qssVars, extVars>>

InitResolve == ResolveInit /\ ExpandIdle /\ TMInit /\ QssIdle /\ ExtIdle

SpecResolve == InitResolve /\ [][ResolveCall]_vars

(***************************************************************************)
(* Claims about resolve                                                    *)
(***************************************************************************)
\* the entries of the component document, as resolve iterates them
CompEntries == IF IsMap(rComp) THEN rComp.m ELSE <<>>

Resolved(i) == rOut.m[i][2]

IsBracketed(v) == IsStr(v) /\ StartsWith(v.s, "{") /\ EndsWith(v.s, "}")

IsThemeKey(v, td) == IsStr(v) /\ IsMap(td) /\ HasKey(td.m, v.s)

IsThemePath(v, td) ==
    IsStr(v) /\ Contains(v.s, ".") /\ NestedOk(td, SplitDots(v.s))

\* a candidate the search passes over
Rejected(key, td) ==
    \/ IsNull(key)
    \/ /\ IsStr(key) /\ StartsWith(key.s, "{")
       /\ ~IsThemeKey(key, td)
       /\ ~IsThemePath(key, td)

NoneAccepted(attrs) ==
    LET keys == CandidateKeys(rBase, attrs)
        td   == get_theme_dict(rBase, rTheme)
    IN  \A i \in DOMAIN keys : Rejected(keys[i], td)

\* C7: an entry for which no candidate is accepted resolves to its original,
\* unresolved value, and a resolved value is null only when the original
\* entry value is null.
C7_FallbackToOriginal ==
    rOut.t = "map" =>
        /\ DOMAIN rOut.m = DOMAIN CompEntries
        /\ \A i \in DOMAIN CompEntries :
             LET attrs == CompEntries[i][2] IN
             /\ rOut.m[i][1] = CompEntries[i][1]
             /\ NoneAccepted(attrs) => Resolved(i) = attrs
             /\ IsNull(Resolved(i)) => IsNull(attrs)

\* C7 witness: Foo: "{Missing.Path}" with no such path and no such theme key
\* has been resolved to the literal "{Missing.Path}".
C7_Witness ==
    /\ rOut.t = "map"
    /\ rBase = BaseRich
    /\ \E i \in DOMAIN CompEntries :
         /\ CompEntries[i] = <<"Foo", S("{Missing.Path}")>>
         /\ NoneAccepted(CompEntries[i][2])
         /\ Resolved(i) = S("{Missing.Path}")

\* the walk of a reference stated on the document alone: the path exists when
\* every segment is a key of the mapping reached so far
RECURSIVE RefExists(_, _)
RefExists(node, segs) ==
    \/ segs = <<>>
    \/ /\ IsMap(node)
       /\ \E i \in DOMAIN node.m :
            node.m[i][1] = Head(segs) /\ RefExists(node.m[i][2], Tail(segs))

RECURSIVE RefTerminal(_, _)
RefTerminal(node, segs) ==
    IF segs = <<>> THEN node
    ELSE RefTerminal(Get(node.m, Head(segs)), Tail(segs))

RefPath(attrs) == SplitDots(StripBraces(attrs.s))

\* C8 as stated: every bracketed reference whose path exists in the base
\* document resolves to the terminal value of the walk, for every base
\* document and theme.
C8_TerminalAlways ==
    rOut.t = "map" =>
        \A i \in DOMAIN CompEntries :
            LET attrs == CompEntries[i][2] IN
            (IsBracketed(attrs) /\ RefExists(rBase, RefPath(attrs)))
                => Resolved(i) = RefTerminal(rBase, RefPath(attrs))

\* C8 amended: the terminal value of the walk is a candidate like any other.
\* The entry resolves to the terminal value when that value is a mapping or a
\* sequence, or a non-null scalar that is neither a key of the theme namespace
\* nor a dotted path into it and does not start with "{"; a terminal string
\* that is a key of the theme namespace resolves to the theme namespace's
\* value for it when that value is not null.
C8_TerminalUnlessThemeKey ==
    rOut.t = "map" =>
        \A i \in DOMAIN CompEntries :
            LET attrs == CompEntries[i][2]
                td    == get_theme_dict(rBase, rTheme)
            IN
            (IsBracketed(attrs) /\ RefExists(rBase, RefPath(attrs))) =>
                LET term == RefTerminal(rBase, RefPath(attrs)) IN
                /\ (IsMap(term) \/ IsList(term)) => Resolved(i) = term
                /\ ( /\ ~IsNull(term) /\ ~IsMap(term) /\ ~IsList(term)
                     /\ ~IsThemeKey(term, td) /\ ~IsThemePath(term, td)
                     /\ ~(IsStr(term) /\ StartsWith(term.s, "{")) )
                       => Resolved(i) = term
                /\ (IsThemeKey(term, td) /\ ~IsNull(Get(td.m, term.s)))
                       => Resolved(i) = Get(td.m, term.s)

\* C8 witness: base {"Default": {"Accent": "#FF0000"}}, entry
\* Foo: "{Default.Accent}", theme "Default": Foo has resolved to "#FF0000".
C8_Witness ==
    /\ rOut.t = "map"
    /\ rBase = BaseExample
    /\ rTheme = "Default"
    /\ rComp = M(<< <<"Foo", S("{Default.Accent}")>> >>)
    /\ Resolved(1) = S("#FF0000")

(***************************************************************************)
(* Claims about resolve: the first-match procedure                         *)
(***************************************************************************)
\* resolveReference: a bracketed reference walks the base document and is
\* null (not found) when a segment is missing; anything else passes through
Dereferenced(v) ==
    IF IsBracketed(v)
    THEN IF RefExists(rBase, RefPath(v)) THEN RefTerminal(rBase, RefPath(v))
         ELSE Null
    ELSE v

\* the candidates of an entry value: a scalar gives one, a sequence each
\* element, a mapping each value, null none
Candidates(attrs) ==
    CASE IsList(attrs) -> [i \in DOMAIN attrs.l |-> Dereferenced(attrs.l[i])]
      [] IsMap(attrs)  -> [i \in DOMAIN attrs.m |-> Dereferenced(attrs.m[i][2])]
      [] IsNull(attrs) -> <<>>
      [] OTHER         -> <<Dereferenced(attrs)>>

\* the first acceptance among the candidates from i on, in declaration order
RECURSIVE FirstMatch(_, _, _)
FirstMatch(cands, i, td) ==
    IF i > Len(cands) THEN [accepted |-> FALSE, value |-> Null]
    ELSE LET c == cands[i] IN
         IF IsNull(c) THEN FirstMatch(cands, i + 1, td)
         ELSE IF IsMap(c) \/ IsList(c) THEN [accepted |-> TRUE, value |-> c]
         ELSE IF IsThemeKey(c, td)
              THEN [accepted |-> TRUE, value |-> Get(td.m, c.s)]
         ELSE IF IsThemePath(c, td)
              THEN [accepted |-> TRUE, value |-> RefTerminal(td, SplitDots(c.s))]
         ELSE IF ~IsBracketed(c) THEN [accepted |-> TRUE, value |-> c]
         ELSE FirstMatch(cands, i + 1, td)

\* what the first-match procedure gives an entry: the accepted value, or the
\* original value when no candidate is accepted
FirstMatchValue(attrs) ==
    LET Outcome(r) == IF r.accepted THEN r.value ELSE attrs
    IN  Outcome(FirstMatch(Candidates(attrs), 1, get_theme_dict(rBase, rTheme)))

\* C22: for every component document, base document and theme, resolve gives
\* every entry the value of the first-match procedure.
C22_AgreesWithFirstMatch ==
    rOut.t = "map" =>
        \A i \in DOMAIN CompEntries :
            Resolved(i) = FirstMatchValue(CompEntries[i][2])

(***************************************************************************)
(* SpecExpand: QSSProcessor(variables).apply_to_string(text) on every      *)
(* template text of a bounded family.  Variable names are identifiers.     *)
(***************************************************************************)
MaxTextLen == 4

TextChars == {"A", "B", "_", ";"}

RECURSIVE TextsUpTo(_)
TextsUpTo(n) ==
    IF n = 0 THEN {""}
    ELSE LET shorter == TextsUpTo(n - 1) IN
         shorter \cup {t \o c : t \in shorter, c \in TextChars}

Texts == TextsUpTo(MaxTextLen) \cup {"color: AccentDark;", "Accent: AccentDarker;"}

VarMaps ==
    { << <<"A", S("#1")>>, <<"AB", S("#2")>> >>,
      << <<"AB", S("#2")>>, <<"A", S("#1")>> >>,
      << <<"A", S("B")>>, <<"B", S("A;")>> >>,
      << <<"B_", Null>>, <<"A", N(4)>>, <<"_", L(<<S("A")>>)>> >>,
      << <<"AB", S("1")>>, <<"BA", S("2")>>, <<"A", S("3")>>, <<"B", S("4")>> >>,
      << <<"Accent", S("#FF0000")>>, <<"AccentDark", S("#AA0000")>> >>,
      <<>> }

ExpandInit ==
    /\ eVars \in VarMaps
    /\ eText \in Texts
    /\ eOut = NotCalled

\* QSSProcessor(variables).apply_to_string(text): __init__ keeps the variables
\* and compiles the pattern
ExpandCall ==
    /\ eOut = NotCalled
    /\ eOut' = S(apply_to_string(compile_pattern(eVars), eVars, eText))
    /\ UNCHANGED <<eVars, eText, resolveVars, tmVars, qssVars, extVars>>

InitExpand == ExpandInit /\ ResolveIdle /\ TMInit /\ QssIdle /\ ExtIdle

SpecExpand == InitExpand /\ [][ExpandCall]_vars

(***************************************************************************)
(* Claims about apply_to_string                                            *)
(***************************************************************************)
\* the position after the maximal run of identifier characters that starts at i
RECURSIVE RunEnd(_, _)
RunEnd(text, i) ==
    IF i <= Len(text) /\ Char(text, i) \in IdentChars
    THEN RunEnd(text, i + 1)
    ELSE i

\* the text with every whole token that is a variable name replaced by
\* str(value), everything else kept
RECURSIVE WholeTokens(_, _, _)
WholeTokens(variables, text, i) ==
    IF i > Len(text) THEN ""
    ELSE IF Char(text, i) \notin IdentChars
         THEN Char(text, i) \o WholeTokens(variables, text, i + 1)
         ELSE LET j    == RunEnd(text, i)
                  word == SubSeq(text, i, j - 1)
              IN  (IF HasKey(variables, word)
                   THEN PyStr(Get(variables, word))
                   ELSE word) \o WholeTokens(variables, text, j)

\* C9: the expansion replaces exactly the occurrences of a variable name that
\* have no letter, digit or underscore next to them with str(value) and keeps
\* all other text; a name that is a prefix of a longer name is never replaced
\* inside an occurrence of the longer one.
C9_WholeTokenSubstitution ==
    eOut.t = "str" => eOut.s = WholeTokens(eVars, eText, 1)

\* C9 witness: {Accent, AccentDark} applied to "color: AccentDark;" gave
\* "color: #AA0000;".
C9_Witness ==
    /\ eOut.t = "str"
    /\ eVars = << <<"Accent", S("#FF0000")>>, <<"AccentDark", S("#AA0000")>> >>
    /\ eText = "color: AccentDark;"
    /\ eOut.s = "color: #AA0000;"

(***************************************************************************)
(* SpecQss: threads inside the ThemeManager's QSSProcessor.  The class     *)
(* takes no lock; a thread can be preempted between any two statements.    *)
(* A step is named after the source line it executes.                      *)
(***************************************************************************)
\* the bound on the number of calls begun in a run
MaxCalls == 3

\* the paths handed to apply_to_file
QssPaths == {QssPath("button"), "fallback.qss", "missing.qss"}

\* the dicts handed to set_variables
QssVarMaps ==
    { << <<"BtnFg", S("#000000")>>, <<"BtnBg", S("#FFFFFF")>>, <<"Radius", S("4px")>> >>,
      << <<"BtnFg", S("#FFFFFF")>>, <<"BtnBg", S("#000000")>>, <<"Radius", S("4px")>> >>,
      <<>> }

\* what a step of SpecQss leaves alone outside the QSSProcessor
qssFrame ==
    <<theme, RESOLVED_CACHE, RAW_DATA_CACHE, LOADED_COMPONENTS, FILE_CACHE,
      widgets, existing_qss_paths, missing_qss_components, styleSheet, alive,
      restyled, refreshed, resolveLog, switched, lastOp, nOps,
      resolveVars, expandVars, extVars>>

At(t, line) == qThread[t].pc = line

Goto(t, line) == qThread' = [qThread EXCEPT ![t].pc = line]

Return(t) == qThread' = [qThread EXCEPT ![t] = IdleThread]

\* a thread calls apply_to_file(p)
ApplyToFile(t, p) ==
    /\ At(t, "idle") /\ qCalls < MaxCalls
    /\ qCalls' = qCalls + 1
    /\ qThread' = [qThread EXCEPT ![t].pc = "L49", ![t].path = p]
    /\ UNCHANGED <<component_resources, pattern, template_cache, processed_cache,
                   qGen, qTag, qssFrame>>

\* lines 49-50: if qss_path in self._processed_cache: return it
L49(t) ==
    /\ At(t, "L49")
    /\ IF qThread[t].path \in DOMAIN processed_cache
       THEN Return(t)
       ELSE Goto(t, "L52")
    /\ UNCHANGED <<component_resources, pattern, template_cache, processed_cache,
                   qGen, qTag, qCalls, qssFrame>>

\* line 52: template_content = self._read_template(qss_path); the
\* FileNotFoundError ends the call
L52(t) ==
    /\ At(t, "L52")
    /\ LET p == qThread[t].path IN
       IF p \in DOMAIN template_cache
       THEN /\ qThread' = [qThread EXCEPT ![t].pc = "L40",
                                          ![t].content = template_cache[p]]
            /\ UNCHANGED template_cache
       ELSE IF p \notin DOMAIN qssDisk
            THEN Return(t) /\ UNCHANGED template_cache
            ELSE /\ template_cache' = Store(template_cache, p, qssDisk[p])
                 /\ qThread' = [qThread EXCEPT ![t].pc = "L40",
                                               ![t].content = qssDisk[p]]
    /\ UNCHANGED <<component_resources, pattern, processed_cache,
                   qGen, qTag, qCalls, qssFrame>>

\* lines 40-41 of apply_to_string: if not self._pattern: return qss_content
L40(t) ==
    /\ At(t, "L40")
    /\ IF pattern = <<>>
       THEN qThread' = [qThread EXCEPT ![t].pc = "L54", ![t].gen = qGen]
       ELSE Goto(t, "L46")
    /\ UNCHANGED <<component_resources, pattern, template_cache, processed_cache,
                   qGen, qTag, qCalls, qssFrame>>

\* line 46: self._pattern.sub(_repl, qss_content), _repl reading
\* self.variables; AttributeError when self._pattern has become None
L46(t) ==
    /\ At(t, "L46")
    /\ IF pattern = <<>>
       THEN Return(t)
       ELSE qThread' = [qThread EXCEPT
                ![t].pc = "L54",
                ![t].content = SubFrom(pattern, component_resources, @, 1),
                ![t].gen = qGen]
    /\ UNCHANGED <<component_resources, pattern, template_cache, processed_cache,
                   qGen, qTag, qCalls, qssFrame>>

\* lines 54-56: self._processed_cache[qss_path] = processed_content; return
L54(t) ==
    /\ At(t, "L54")
    /\ processed_cache' = Store(processed_cache, qThread[t].path, qThread[t].content)
    /\ qTag' = Store(qTag, qThread[t].path, qThread[t].gen)
    /\ Return(t)
    /\ UNCHANGED <<component_resources, pattern, template_cache,
                   qGen, qCalls, qssFrame>>

\* a thread calls set_variables(m)
SetVariables(t, m) ==
    /\ At(t, "idle") /\ qCalls < MaxCalls
    /\ qCalls' = qCalls + 1
    /\ qThread' = [qThread EXCEPT ![t].pc = "L14", ![t].m = m]
    /\ UNCHANGED <<component_resources, pattern, template_cache, processed_cache,
                   qGen, qTag, qssFrame>>

\* line 14: self.variables = variables
L14(t) ==
    /\ At(t, "L14")
    /\ component_resources' = qThread[t].m
    /\ qGen' = qGen + 1
    /\ Goto(t, "L19")
    /\ UNCHANGED <<pattern, template_cache, processed_cache, qTag, qCalls, qssFrame>>

\* lines 19-22 of _compile_pattern: self._pattern = None when the variables
\* are empty, else keys = sorted(self.variables.keys(), key=len, reverse=True)
L19(t) ==
    /\ At(t, "L19")
    /\ IF component_resources = <<>>
       THEN pattern' = <<>> /\ Goto(t, "L16")
       ELSE /\ qThread' = [qThread EXCEPT
                   ![t].pc = "L25",
                   ![t].keys = compile_pattern(component_resources)]
            /\ UNCHANGED pattern
    /\ UNCHANGED <<component_resources, template_cache, processed_cache,
                   qGen, qTag, qCalls, qssFrame>>

\* lines 23-25: self._pattern = re.compile(...)
L25(t) ==
    /\ At(t, "L25")
    /\ pattern' = qThread[t].keys
    /\ Goto(t, "L16")
    /\ UNCHANGED <<component_resources, template_cache, processed_cache,
                   qGen, qTag, qCalls, qssFrame>>

\* line 16: self._processed_cache.clear(); return
L16(t) ==
    /\ At(t, "L16")
    /\ processed_cache' = EmptyDict
    /\ qTag' = EmptyDict
    /\ Return(t)
    /\ UNCHANGED <<component_resources, pattern, template_cache,
                   qGen, qCalls, qssFrame>>

QssNext ==
    \/ \E t \in Threads, p \in QssPaths : ApplyToFile(t, p)
    \/ \E t \in Threads : L49(t)
    \/ \E t \in Threads : L52(t)
    \/ \E t \in Threads : L40(t)
    \/ \E t \in Threads : L46(t)
    \/ \E t \in Threads : L54(t)
    \/ \E t \in Threads, m \in QssVarMaps : SetVariables(t, m)
    \/ \E t \in Threads : L14(t)
    \/ \E t \in Threads : L19(t)
    \/ \E t \in Threads : L25(t)
    \/ \E t \in Threads : L16(t)

\* the QSSProcessor of a ThemeManager that has just been constructed
InitQss == TMInit /\ ResolveIdle /\ ExpandIdle /\ QssIdle /\ ExtIdle

SpecQss == InitQss /\ [][QssNext]_vars

(***************************************************************************)
(* Claims about threads in the QSSProcessor                                *)
(***************************************************************************)
\* C10 as stated: under any interleaving of apply_to_file(p) on one thread
\* with set_variables(m) on another, once the calls have returned the
\* expanded-text cache holds no entry that was computed from the variables in
\* force before set_variables(m).
C10_NoStaleExpansion ==
    (\A t \in Threads : At(t, "idle")) =>
        \A p \in DOMAIN processed_cache : qTag[p] = qGen

(***************************************************************************)
(* SpecTemplate: the calls of one QSSProcessor, one after another, while   *)
(* the template files on disk are written and deleted                      *)
(***************************************************************************)
\* the texts written to a template file
TemplateTexts == {"color:BtnFg;", "r:Radius;"}

\* qss_manager.apply_to_file(p)
CallApplyToFile(p) ==
    /\ Called
    /\ \E r \in {get_processed_stylesheet(Begin, p)} :
       /\ Becomes(r.st)
       /\ lastOp' = [NoOp EXCEPT !.op = "apply_to_file", !.path = p,
                                 !.raised = r.raised,
                                 !.value = IF r.raised THEN Null ELSE S(r.content)]
    /\ UNCHANGED <<alive, resolveVars, expandVars, qssVars, extVars>>

\* qss_processor.set_variables(m)
CallSetVariables(m) ==
    /\ Called
    /\ Becomes(set_variables([Begin EXCEPT !.component_resources = m]))
    /\ lastOp' = [NoOp EXCEPT !.op = "set_variables"]
    /\ UNCHANGED <<alive, resolveVars, expandVars, qssVars, extVars>>

\* what a change outside the program leaves alone
envFrame ==
    <<theme, RESOLVED_CACHE, RAW_DATA_CACHE, LOADED_COMPONENTS,
      component_resources, pattern, template_cache, processed_cache,
      FILE_CACHE, widgets, existing_qss_paths, missing_qss_components,
      styleSheet, alive, restyled, refreshed, resolveLog, switched,
      resolveVars, expandVars, qssVars, procVars>>

\* somebody writes the template file p
WriteTemplate(p, text) ==
    /\ Called
    /\ qssDisk' = Store(qssDisk, p, text)
    /\ lastOp' = [NoOp EXCEPT !.op = "write", !.path = p]
    /\ UNCHANGED <<envFrame, yamlDisk, widgetVars, loadVars>>

\* somebody deletes the template file p
DeleteTemplate(p) ==
    /\ Called
    /\ p \in DOMAIN qssDisk
    /\ qssDisk' = [q \in DOMAIN qssDisk \ {p} |-> qssDisk[q]]
    /\ lastOp' = [NoOp EXCEPT !.op = "delete", !.path = p]
    /\ UNCHANGED <<envFrame, yamlDisk, widgetVars, loadVars>>

TemplateNext ==
    \/ \E p \in QssPaths : CallApplyToFile(p)
    \/ \E m \in QssVarMaps : CallSetVariables(m)
    \/ \E p \in QssPaths, text \in TemplateTexts : WriteTemplate(p, text)
    \/ \E p \in QssPaths : DeleteTemplate(p)

\* the QSSProcessor of a ThemeManager that has just been constructed
InitTemplate == TMInit /\ ResolveIdle /\ ExpandIdle /\ QssIdle /\ ExtIdle

SpecTemplate == InitTemplate /\ [][TemplateNext]_vars

(***************************************************************************)
(* Claims about template files                                             *)
(***************************************************************************)
\* the call this step makes is apply_to_file(p)
AppliesToFile(p) ==
    /\ nOps' = nOps + 1
    /\ lastOp'.op = "apply_to_file" /\ lastOp'.path = p

\* C11 as stated: apply_to_file(p) raises FileNotFoundError whenever the
\* file at p does not exist at the time of the call, whatever the caches
\* hold.
C11_RaisesWheneverMissing ==
    [][\A p \in QssPaths :
          (AppliesToFile(p) /\ p \notin DOMAIN qssDisk) => lastOp'.raised]_vars

\* C11 amended: apply_to_file(p) raises FileNotFoundError exactly when the
\* file at p does not exist at the time of the call and p is in neither the
\* template cache nor the expanded-text cache; a call that raises adds no
\* entry to either cache.
C11_RaisesWhenMissingAndUncached ==
    [][\A p \in QssPaths :
          AppliesToFile(p) =>
              /\ lastOp'.raised <=>
                     /\ p \notin DOMAIN qssDisk
                     /\ p \notin DOMAIN template_cache
                     /\ p \notin DOMAIN processed_cache
              /\ lastOp'.raised =>
                     UNCHANGED <<template_cache, processed_cache>>]_vars

\* C11 witness: apply_to_file raised for a path whose file had been deleted,
\* another template being cached.
C11_Witness ==
    /\ lastOp.op = "apply_to_file" /\ lastOp.raised
    /\ lastOp.path = QssPath("button")
    /\ template_cache /= EmptyDict

(***************************************************************************)
(* SpecRegistry: the calls of one WidgetRegistry, one after another, over  *)
(* widgets whose methods can raise and template files that can be missing  *)
(* or unreadable                                                           *)
(***************************************************************************)
\* the component_name arguments of WidgetRegistry.register; "" is None
RegistryComponents == Components \cup {""}

\* the disks a run can find: both templates, one of them not UTF-8, or the
\* fallback template missing
RegistryDisks ==
    { QssFiles,
      Store(QssFiles, "fallback.qss", Undecodable),
      Store(QssFiles, QssPath("button"), Undecodable),
      [p \in {QssPath("button")} |-> QssFiles[p]] }

\* the widget classes a run can have: at most one whose setStyleSheet or
\* updateIcon raises
RegistryFaults ==
    { f \in [Widgets -> {"none", "setStyleSheet", "updateIcon"}] :
         /\ Cardinality({w \in Widgets : f[w] /= "none"}) <= 1
         /\ \A w \in Widgets : f[w] = "updateIcon" => HasUpdateIcon(w) }

\* widget_registry.register(w, c), called for a widget whose Qt object exists
RegistryRegister(w, c) ==
    /\ Called
    /\ w \in alive /\ wFault[w] /= "deleted"
    /\ \E r \in {registry_register(Begin, w, c)} :
       /\ Becomes(r.st)
       /\ lastOp' = [NoOp EXCEPT !.op = "registry_register", !.w = w, !.c = c,
                                 !.raised = r.raised]
    /\ UNCHANGED <<alive, resolveVars, expandVars, qssVars, extVars>>

\* widget_registry.update_all()
UpdateAll ==
    /\ Called
    /\ \E r \in {update_all(Begin)} :
       /\ Becomes(r.st)
       /\ lastOp' = [NoOp EXCEPT !.op = "update_all", !.raised = r.raised,
                                 !.updated = TRUE]
    /\ UNCHANGED <<alive, resolveVars, expandVars, qssVars, extVars>>

\* Qt deletes the object of a registered widget (its parent is deleted, or
\* deleteLater runs) while Python still refers to the widget
DeleteQtObject(w) ==
    /\ Called
    /\ w \in alive /\ HasKey(widgets, w) /\ wFault[w] /= "deleted"
    /\ wFault' = [wFault EXCEPT ![w] = "deleted"]
    /\ lastOp' = [NoOp EXCEPT !.op = "delete_qt_object", !.w = w]
    /\ UNCHANGED <<envFrame, fsVars, loadVars>>

RegistryNext ==
    \/ \E w \in Widgets, c \in RegistryComponents : RegistryRegister(w, c)
    \/ UpdateAll
    \/ \E t \in Themes : SetTheme(t)
    \/ \E w \in Widgets : DestroyWidget(w)
    \/ \E w \in Widgets : DeleteQtObject(w)

\* the registry of a ThemeManager that has just been constructed
InitRegistry ==
    /\ TMInit /\ ResolveIdle /\ ExpandIdle /\ QssIdle
    /\ qssDisk \in RegistryDisks /\ YamlDiskInit
    /\ wFault \in RegistryFaults
    /\ ProcIdle

SpecRegistry == InitRegistry /\ [][RegistryNext]_vars

(***************************************************************************)
(* Claims about the registry                                               *)
(***************************************************************************)
\* the file at p can be read as a template
Readable(p) == p \in DOMAIN qssDisk /\ qssDisk[p] /= Undecodable

\* the template that widget w registered under component c is styled from:
\* the component's when it can be read, else the one its qss_path property
\* names; "" when neither yields a template
TemplatePathFor(w, c) ==
    IF c /= "" /\ Readable(QssPath(c)) THEN QssPath(c)
    ELSE IF QssPathProperty(w) /= "" /\ Readable(QssPathProperty(w))
         THEN QssPathProperty(w)
         ELSE ""

\* C12 as stated: the registry holds no entry of a destroyed widget, and once
\* a widget has been destroyed every update_all, the one of set_theme
\* included, returns without raising and neither styles the destroyed widget
\* nor refreshes its icon.
C12_DestroyedWidgetIgnored ==
    /\ \A i \in DOMAIN widgets : widgets[i][1] \in alive
    /\ (restyled \cup refreshed) \subseteq alive
    /\ (lastOp.updated /\ alive /= Widgets) => ~lastOp.raised

\* C13 as stated: update_all does not raise, whatever a widget's
\* setStyleSheet, property lookup or updateIcon or the expansion of its
\* template does, and it restyles every registered widget that accepts a
\* stylesheet and has a template.
C13_FailuresStayWithTheirWidget ==
    lastOp.updated =>
        /\ ~lastOp.raised
        /\ \A i \in DOMAIN widgets :
              (/\ wFault[widgets[i][1]] \in {"none", "updateIcon"}
               /\ TemplatePathFor(widgets[i][1], widgets[i][2]) /= "")
              => widgets[i][1] \in restyled

\* the call this step makes is widget_registry.register(w, c)
RegistersWidget(w, c) ==
    /\ nOps' = nOps + 1
    /\ lastOp'.op = "registry_register" /\ lastOp'.w = w /\ lastOp'.c = c

\* C14: WidgetRegistry.register(w, c), when neither the component's template
\* path nor the widget's qss_path property yields a template, returns without
\* raising, records the association of w with c and leaves the style text of
\* w as it was.
C14_RegisteredUnstyled ==
    [][\A w \in Widgets, c \in RegistryComponents :
          (RegistersWidget(w, c) /\ TemplatePathFor(w, c) = "") =>
              /\ ~lastOp'.raised
              /\ HasKey(widgets', w) /\ Get(widgets', w) = c
              /\ styleSheet'[w] = styleSheet[w]]_vars

\* C14 witness: a widget that names a fallback template in its qss_path
\* property was registered under a component without a template while the
\* fallback could not be had either.
C14_Witness ==
    /\ lastOp.op = "registry_register" /\ ~lastOp.raised
    /\ QssPathProperty(lastOp.w) /= ""
    /\ TemplatePathFor(lastOp.w, lastOp.c) = ""
    /\ HasKey(widgets, lastOp.w)

(***************************************************************************)
(* SpecLoad: YAMLProcessor._load_file_cached called again and again while  *)
(* the token files on disk are written and deleted                         *)
(***************************************************************************)
\* the latest modification time a write gives a file
MaxMTime == 3

\* os.path.getmtime of a file that exists: seconds since the epoch, never the
\* 0.0 that _get_mtime gives a missing file
MTimes == 1..MaxMTime

\* the paths handed to _load_file_cached: a file that exists at first and one
\* that does not
LoadPaths == {YamlPath("controls", "button"), YamlPath("controls", "list_box")}

\* what yaml.safe_load makes of the contents written: two mappings and an
\* empty file
WrittenDocs ==
    { M(<< <<"BtnFg", S("Fg")>> >>), M(<< <<"BtnFg", S("Bg")>> >>), Null }

\* YAMLProcessor._load_file_cached(p)
LoadFile(p) ==
    /\ Called
    /\ \E r \in {load_file_cached(Begin, p)} :
       /\ Becomes(r.st)
       /\ lastOp' = [NoOp EXCEPT !.op = "load", !.path = p, !.value = r.data]
    /\ UNCHANGED <<alive, resolveVars, expandVars, qssVars, extVars>>

\* somebody writes the token file p; the write changes the modification time
\* of a file that exists
WriteYaml(p, doc, m) ==
    /\ Called
    /\ p \in DOMAIN yamlDisk => yamlDisk[p].mtime /= m
    /\ yamlDisk' = Store(yamlDisk, p, [mtime |-> m, data |-> doc])
    /\ lastMTime' = [lastMTime EXCEPT ![p] = IF m > @ THEN m ELSE @]
    /\ mtimesIncrease' = (mtimesIncrease /\ m > lastMTime[p])
    /\ lastOp' = [NoOp EXCEPT !.op = "write", !.path = p]
    /\ UNCHANGED <<envFrame, qssDisk, widgetVars>>

\* somebody deletes the token file p
DeleteYaml(p) ==
    /\ Called
    /\ p \in DOMAIN yamlDisk
    /\ yamlDisk' = [q \in DOMAIN yamlDisk \ {p} |-> yamlDisk[q]]
    /\ lastOp' = [NoOp EXCEPT !.op = "delete", !.path = p]
    /\ UNCHANGED <<envFrame, qssDisk, widgetVars, loadVars>>

LoadNext ==
    \/ \E p \in LoadPaths : LoadFile(p)
    \/ \E p \in LoadPaths, doc \in WrittenDocs, m \in MTimes : WriteYaml(p, doc, m)
    \/ \E p \in LoadPaths : DeleteYaml(p)

\* the file cache after ThemeManager.__init__ has read the common document
InitLoad == TMInit /\ ResolveIdle /\ ExpandIdle /\ QssIdle /\ ExtIdle

SpecLoad == InitLoad /\ [][LoadNext]_vars

(***************************************************************************)
(* Claims about the file cache                                             *)
(***************************************************************************)
\* the parse of the file at p as it is now: the empty document when the file
\* is missing or empty
ParseOf(disk, p) ==
    IF p \in DOMAIN disk /\ Truthy(disk[p].data) THEN disk[p].data ELSE EmptyDoc

\* the modification time of the file at p as it is now, 0 for a missing file
MTimeOf(disk, p) == IF p \in DOMAIN disk THEN disk[p].mtime ELSE 0

\* C17 as stated: when every write changes the file's modification time,
\* load(p) returns the parse of the file's current content, the empty
\* document when the file is missing.
C17_LoadReturnsCurrentContent ==
    lastOp.op = "load" => lastOp.value = ParseOf(yamlDisk, lastOp.path)

\* the call this step makes is load(p)
LoadsFile(p) ==
    /\ nOps' = nOps + 1
    /\ lastOp'.op = "load" /\ lastOp'.path = p

\* C17 amended: load(p) returns the cached parse, and leaves the cache alone,
\* exactly when the cache has an entry of p whose recorded modification time
\* equals the current one (0 for a missing file); otherwise it parses the
\* file and replaces the entry.  When every write has given its file a
\* modification time later than every earlier one of that file, what load(p)
\* returns is the parse of the file's current content.
C17_LoadFollowsModificationTime ==
    [][\A p \in LoadPaths :
          LoadsFile(p) =>
              /\ IF p \in DOMAIN FILE_CACHE
                    /\ FILE_CACHE[p].mtime = MTimeOf(yamlDisk, p)
                 THEN /\ lastOp'.value = FILE_CACHE[p].data
                      /\ UNCHANGED FILE_CACHE
                 ELSE /\ lastOp'.value = ParseOf(yamlDisk, p)
                      /\ FILE_CACHE' =
                            Store(FILE_CACHE, p,
                                  [mtime |-> MTimeOf(yamlDisk, p),
                                   data  |-> ParseOf(yamlDisk, p)])
              /\ mtimesIncrease => lastOp'.value = ParseOf(yamlDisk, p)]_vars

\* C17 witness: a file that had been loaded was written with a later
\* modification time and loaded again; the load returned the new content.
C17_Witness ==
    /\ lastOp.op = "load" /\ mtimesIncrease
    /\ lastOp.path = YamlPath("controls", "button")
    /\ lastOp.value = M(<< <<"BtnFg", S("Bg")>> >>)
    /\ MTimeOf(yamlDisk, lastOp.path) = MaxMTime
    /\ nOps >= 3

(***************************************************************************)
(* SpecInstance: threads in ThemeManager.get_instance, one step per        *)
(* evaluation that another thread can come between                         *)
(***************************************************************************)
\* the calls of get_instance one thread makes
MaxGets == 2

GiThreads == Threads

\* what a step of SpecInstance leaves alone
instFrame ==
    <<resolveVars, expandVars, tmVars, qssVars, fsVars, widgetVars, loadVars,
      lockVars, repeatVars, lateVars>>

GiAt(t, line) == giThread[t].pc = line

\* a thread calls ThemeManager.get_instance()
GiCall(t) ==
    /\ GiAt(t, "idle")
    /\ giThread[t].calls < MaxGets
    /\ giThread' = [giThread EXCEPT ![t].pc = "L25", ![t].calls = @ + 1]
    /\ UNCHANGED <<instance, managers, instFrame>>

\* line 25: if cls._instance is NoInstance
GiL25(t) ==
    /\ GiAt(t, "L25")
    /\ giThread' = [giThread EXCEPT
                       ![t].pc = IF instance = NoInstance THEN "L26" ELSE "L27"]
    /\ UNCHANGED <<instance, managers, instFrame>>

\* line 26, right-hand side: cls() makes a ThemeManager, whose __init__ sets
\* theme to "Default" (lines 29-39)
GiL26Construct(t) ==
    /\ GiAt(t, "L26")
    /\ managers' = Append(managers, [theme |-> "Default"])
    /\ giThread' = [giThread EXCEPT ![t].pc = "L26store",
                                    ![t].made = Len(managers) + 1]
    /\ UNCHANGED <<instance, instFrame>>

\* line 26, assignment: cls._instance = <the new object>
GiL26Store(t) ==
    /\ GiAt(t, "L26store")
    /\ instance' = giThread[t].made
    /\ giThread' = [giThread EXCEPT ![t].pc = "L27"]
    /\ UNCHANGED <<managers, instFrame>>

\* line 27: return cls._instance
GiL27(t) ==
    /\ GiAt(t, "L27")
    /\ giThread' = [giThread EXCEPT ![t].pc = "idle", ![t].got = instance]
    /\ UNCHANGED <<instance, managers, instFrame>>

\* the caller uses what it got: set_theme(th) on that ThemeManager (line 108)
GiSetTheme(t, th) ==
    /\ GiAt(t, "idle")
    /\ giThread[t].got /= NoInstance
    /\ managers[giThread[t].got].theme /= th
    /\ managers' = [managers EXCEPT ![giThread[t].got].theme = th]
    /\ UNCHANGED <<instance, giThread, instFrame>>

InstanceNext ==
    \E t \in GiThreads :
        \/ GiCall(t)
        \/ GiL25(t)
        \/ GiL26Construct(t)
        \/ GiL26Store(t)
        \/ GiL27(t)
        \/ \E th \in Themes : GiSetTheme(t, th)

\* the process before the first access
InitInstance == TMInit /\ ResolveIdle /\ ExpandIdle /\ QssIdle /\ ExtIdle

SpecInstance == InitInstance /\ [][InstanceNext]_vars

(***************************************************************************)
(* Claims about the singleton                                              *)
(***************************************************************************)
\* the ThemeManagers the callers have received
Received == {giThread[t].got : t \in GiThreads} \ {NoInstance}

\* C18: under concurrent first access get_instance creates exactly one
\* ThemeManager and every caller receives the same instance, so there is one
\* active theme per process.
C18_OneInstance ==
    /\ Len(managers) <= 1
    /\ Cardinality(Received) <= 1
    /\ \A i, j \in Received : managers[i].theme = managers[j].theme

(***************************************************************************)
(* SpecLock: threads in ThemeManager.load_component, one step per lock     *)
(* acquisition, per block under the lock and per statement outside it,     *)
(* next to threads that read the accumulated map and expand templates.     *)
(* _CACHE_LOCK of yaml_util.py is taken only inside blocks that already    *)
(* hold ThemeManager._CACHE_LOCK; those blocks are single steps here.      *)
(***************************************************************************)
\* the calls begun in one run
MaxLoads == 3

LkIdle(t) == lkThread[t].pc = "idle"

LkAt(t, line) == lkThread[t].pc = line

\* with self._CACHE_LOCK: enter
Acquire(t) == lkOwner = "free" /\ lkOwner' = t

\* with self._CACHE_LOCK: leave
Release(t) == lkOwner = t /\ lkOwner' = "free"

\* where the loop of lines 53-56 goes with item th.i: past the loop to line
\* 58, to get_default_value for a null value, or to the assignment
LoopAt(th) ==
    IF th.i > Len(th.data) THEN [th EXCEPT !.pc = "L58"]
    ELSE IF IsNull(th.data[th.i][2]) THEN [th EXCEPT !.pc = "L91"]
    ELSE [th EXCEPT !.pc = "L56", !.value = th.data[th.i][2]]

\* what a step of SpecLock leaves alone
lockFrame ==
    <<resolveVars, expandVars, qssVars, fsVars, widgetVars, loadVars, instVars,
      repeatVars, lateVars, alive, lastOp, nOps>>

\* the variables Becomes assigns
becomesVars ==
    <<theme, RESOLVED_CACHE, RAW_DATA_CACHE, LOADED_COMPONENTS,
      component_resources, pattern, template_cache, processed_cache,
      FILE_CACHE, widgets, existing_qss_paths, missing_qss_components,
      styleSheet, restyled, refreshed, resolveLog, switched>>

\* a thread calls load_component(g, c)
LkCall(t, g, c) ==
    /\ LkIdle(t) /\ lkCalls < MaxLoads
    /\ lkCalls' = lkCalls + 1
    /\ lkThread' = [lkThread EXCEPT ![t] = [IdleLoader EXCEPT
                                               !.pc = "L47", !.g = g, !.c = c]]
    /\ UNCHANGED <<lkOwner, unguarded, lkSeen, becomesVars, lockFrame>>

\* line 47: with self._CACHE_LOCK
LkL47(t) ==
    /\ LkAt(t, "L47") /\ Acquire(t)
    /\ lkThread' = [lkThread EXCEPT ![t].pc = "L48"]
    /\ UNCHANGED <<lkCalls, unguarded, lkSeen, becomesVars, lockFrame>>

\* lines 48-49: if component_name in self._LOADED_COMPONENTS: return
LkL48(t) ==
    /\ LkAt(t, "L48") /\ Release(t)
    /\ lkThread' = [lkThread EXCEPT ![t] =
                       IF lkThread[t].c \in LOADED_COMPONENTS
                       THEN IdleLoader ELSE [@ EXCEPT !.pc = "L74"]]
    /\ UNCHANGED <<lkCalls, unguarded, lkSeen, becomesVars, lockFrame>>

\* line 51 calls get_resolved_data_and_path; line 74: with self._CACHE_LOCK
LkL74(t) ==
    /\ LkAt(t, "L74") /\ Acquire(t)
    /\ lkThread' = [lkThread EXCEPT ![t].pc = "L75"]
    /\ UNCHANGED <<lkCalls, unguarded, lkSeen, becomesVars, lockFrame>>

\* lines 75-86 under the lock, then line 53 with the first item
LkL75(t) ==
    /\ LkAt(t, "L75") /\ Release(t)
    /\ \E r \in {get_resolved_data_and_path(Begin, lkThread[t].g, lkThread[t].c)} :
       /\ Becomes(r.st)
       /\ lkThread' = [lkThread EXCEPT ![t] =
                          LoopAt([@ EXCEPT !.data = r.data, !.path = r.path,
                                           !.i = 1,
                                           !.base = component_resources])]
    /\ UNCHANGED <<lkCalls, unguarded, lkSeen, lockFrame>>

\* line 55 calls get_default_value; line 91: with self._CACHE_LOCK
LkL91(t) ==
    /\ LkAt(t, "L91") /\ Acquire(t)
    /\ lkThread' = [lkThread EXCEPT ![t].pc = "L92"]
    /\ UNCHANGED <<lkCalls, unguarded, lkSeen, becomesVars, lockFrame>>

\* lines 92-97 under the lock, then lines 99-101 on locals
LkL92(t) ==
    /\ LkAt(t, "L92") /\ Release(t)
    /\ \E d \in {get_default_value(Begin, lkThread[t].path,
                                   lkThread[t].data[lkThread[t].i][1])} :
       /\ Becomes(d.st)
       /\ lkThread' = [lkThread EXCEPT ![t].pc = "L56", ![t].value = d.value]
    /\ UNCHANGED <<lkCalls, unguarded, lkSeen, lockFrame>>

\* line 56: self.component_resources[name] = value, then line 53 with the
\* next item
LkL56(t) ==
    /\ LkAt(t, "L56")
    /\ component_resources' =
           Put(component_resources, lkThread[t].data[lkThread[t].i][1],
               lkThread[t].value)
    /\ unguarded' = IF lkOwner = t THEN unguarded
                    ELSE unguarded \cup {"component_resources"}
    /\ lkThread' = [lkThread EXCEPT ![t] = LoopAt([@ EXCEPT !.i = @ + 1])]
    /\ UNCHANGED <<theme, RESOLVED_CACHE, RAW_DATA_CACHE, LOADED_COMPONENTS,
                   pattern, template_cache, processed_cache, FILE_CACHE,
                   widgets, existing_qss_paths, missing_qss_components,
                   styleSheet, restyled, refreshed, resolveLog, switched,
                   lkOwner, lkCalls, lkSeen, lockFrame>>

\* line 58: self.qss_processor.set_variables(self.component_resources)
LkL58(t) ==
    /\ LkAt(t, "L58")
    /\ Becomes(set_variables(Begin))
    /\ lkThread' = [lkThread EXCEPT ![t].pc = "L60"]
    /\ UNCHANGED <<lkOwner, lkCalls, unguarded, lkSeen, lockFrame>>

\* line 60: with self._CACHE_LOCK
LkL60(t) ==
    /\ LkAt(t, "L60") /\ Acquire(t)
    /\ lkThread' = [lkThread EXCEPT ![t].pc = "L61"]
    /\ UNCHANGED <<lkCalls, unguarded, lkSeen, becomesVars, lockFrame>>

\* line 61 under the lock: self._LOADED_COMPONENTS.add(component_name); then
\* line 63 ends the call
LkL61(t) ==
    /\ LkAt(t, "L61") /\ Release(t)
    /\ LOADED_COMPONENTS' = LOADED_COMPONENTS \cup {lkThread[t].c}
    /\ lkThread' = [lkThread EXCEPT ![t] = IdleLoader]
    /\ UNCHANGED <<theme, RESOLVED_CACHE, RAW_DATA_CACHE, component_resources,
                   pattern, template_cache, processed_cache, FILE_CACHE,
                   widgets, existing_qss_paths, missing_qss_components,
                   styleSheet, restyled, refreshed, resolveLog, switched,
                   lkCalls, unguarded, lkSeen, lockFrame>>

\* some thread is between two assignments of line 56: the accumulated map is
\* neither what it was when the loop began nor what it is when the loop ends
PartlyMerged ==
    \E u \in Threads :
        /\ lkThread[u].pc \in {"L56", "L91", "L92"}
        /\ component_resources /= lkThread[u].base
        /\ component_resources /=
               MergeFrom(Cur, lkThread[u].data, lkThread[u].path,
                         lkThread[u].i).component_resources

\* a thread reads the accumulated map (tm.component_resources, which is also
\* the variables of the QSSProcessor)
LkRead(t) ==
    /\ LkIdle(t) /\ lkCalls < MaxLoads
    /\ lkCalls' = lkCalls + 1
    /\ lkSeen' = [what |-> "component_resources", partial |-> PartlyMerged]
    /\ UNCHANGED <<lkOwner, lkThread, unguarded, becomesVars, lockFrame>>

\* a thread expands a template: qss_processor.get_processed_stylesheet(p)
LkExpand(t, p) ==
    /\ LkIdle(t) /\ lkCalls < MaxLoads
    /\ lkCalls' = lkCalls + 1
    /\ Becomes(get_processed_stylesheet(Begin, p).st)
    /\ lkSeen' = [what |-> "expansion", partial |-> PartlyMerged]
    /\ UNCHANGED <<lkOwner, lkThread, unguarded, lockFrame>>

LockNext ==
    \E t \in Threads :
        \/ \E g \in Groups, c \in Components : LkCall(t, g, c)
        \/ LkL47(t) \/ LkL48(t)
        \/ LkL74(t) \/ LkL75(t)
        \/ LkL91(t) \/ LkL92(t)
        \/ LkL56(t)
        \/ LkL58(t)
        \/ LkL60(t) \/ LkL61(t)
        \/ LkRead(t)
        \/ \E p \in DOMAIN QssFiles : LkExpand(t, p)

InitLock == TMInit /\ ResolveIdle /\ ExpandIdle /\ QssIdle /\ ExtIdle

SpecLock == InitLock /\ [][LockNext]_vars

(***************************************************************************)
(* Claims about the lock                                                   *)
(***************************************************************************)
\* C19: every mutation of the shared theming state happens while the lock
\* is held, and no thread observes the accumulated map, or computes a
\* template expansion from it, while a component's tokens are only partly
\* merged into it.
C19_MutationsUnderLock ==
    /\ unguarded = {}
    /\ ~lkSeen.partial

(***************************************************************************)
(* SpecRepeat: a RepeatButton under the mouse, time in ticks of 100 ms.    *)
(* The Qt side is QAbstractButton and QTimer as Qt 5 documents them:       *)
(* click() sets the button down, emits pressed(), sets it up again and     *)
(* emits released() and clicked(); mouseReleaseEvent does nothing when the *)
(* button is not down; setInterval on a stopped timer does not start it.   *)
(* The pointer stays where it was pressed.                                 *)
(***************************************************************************)
\* the ticks one run lasts
MaxTicks == 7

\* the times the mouse button goes down in one run
MaxPresses == 2

\* the longest delay or interval given to setRepeatDelay, setRepeatInterval
MaxDuration == 2

Durations == 1..MaxDuration

\* QTimer.start(msec)
TimerStart(tm, msec) == [active |-> TRUE, interval |-> msec, left |-> msec]

\* QTimer.stop()
TimerStop(tm) == [tm EXCEPT !.active = FALSE]

\* QTimer.setInterval(msec): an active timer starts again with the new
\* interval, a stopped one stays stopped
TimerSetInterval(tm, msec) ==
    IF tm.active THEN TimerStart(tm, msec) ELSE [tm EXCEPT !.interval = msec]

\* _start_repeat, connected to pressed()
start_repeat(b) == [b EXCEPT !.timer = TimerStart(@, b.repeat_delay)]

\* _stop_repeat, connected to released()
stop_repeat(b) == [b EXCEPT !.timer = TimerStop(@)]

\* QAbstractButton.click(): down, pressed(), up, released(), clicked()
click(b) ==
    LET Pressed(p)  == start_repeat([p EXCEPT !.down = TRUE])
        Released(r) == stop_repeat([r EXCEPT !.down = FALSE])
        Clicked(c)  == [c EXCEPT !.clicks = @ + 1]
    IN  Clicked(Released(Pressed(b)))

\* _on_repeat_timeout
on_repeat_timeout(b) ==
    LET Switched(c) == [c EXCEPT !.timer = TimerSetInterval(@, c.repeat_interval)]
    IN  Switched(click(b))

\* the button as one record
CurButton ==
    [down |-> rbDown, timer |-> rbTimer, clicks |-> rbClicks,
     repeat_delay |-> repeat_delay, repeat_interval |-> repeat_interval]

ButtonBecomes(b) ==
    /\ rbDown' = b.down
    /\ rbTimer' = b.timer
    /\ rbClicks' = b.clicks
    /\ repeat_delay' = b.repeat_delay
    /\ repeat_interval' = b.repeat_interval

\* what a step of SpecRepeat leaves alone
repeatFrame ==
    <<resolveVars, expandVars, tmVars, qssVars, fsVars, widgetVars, loadVars,
      instVars, lockVars, lateVars>>

\* the user presses the mouse button on the widget: mousePressEvent sets the
\* button down and emits pressed()
MousePress ==
    /\ ~rbHeld /\ rbPresses < MaxPresses
    /\ rbHeld' = TRUE
    /\ rbPresses' = rbPresses + 1
    /\ ButtonBecomes(start_repeat([CurButton EXCEPT !.down = TRUE]))
    /\ rbDue' = repeat_delay
    /\ rbLast' = "press"
    /\ UNCHANGED <<rbTime, repeatFrame>>

\* the user lets go: mouseReleaseEvent ignores the event when the button is
\* not down, and otherwise sets it up and emits released() and clicked()
MouseRelease ==
    /\ rbHeld
    /\ rbHeld' = FALSE
    /\ ButtonBecomes(IF rbDown
                     THEN [stop_repeat([CurButton EXCEPT !.down = FALSE])
                              EXCEPT !.clicks = @ + 1]
                     ELSE CurButton)
    /\ rbLast' = "release"
    /\ UNCHANGED <<rbPresses, rbDue, rbTime, repeatFrame>>

\* 100 ms pass; a timer that is due fires first
Tick ==
    /\ rbTime < MaxTicks
    /\ rbTimer.active => rbTimer.left > 0
    /\ rbTime' = rbTime + 1
    /\ rbTimer' = IF rbTimer.active THEN [rbTimer EXCEPT !.left = @ - 1]
                  ELSE rbTimer
    /\ rbDue' = IF rbHeld THEN rbDue - 1 ELSE rbDue
    /\ rbLast' = "tick"
    /\ UNCHANGED <<rbHeld, rbDown, rbClicks, rbPresses, repeat_delay,
                   repeat_interval, repeatFrame>>

\* the timer fires: it is due again after its interval, and timeout() calls
\* _on_repeat_timeout
Timeout ==
    /\ rbTimer.active /\ rbTimer.left = 0
    /\ ButtonBecomes(on_repeat_timeout(
           [CurButton EXCEPT !.timer.left = rbTimer.interval]))
    /\ rbDue' = repeat_interval
    /\ rbLast' = "timeout"
    /\ UNCHANGED <<rbHeld, rbPresses, rbTime, repeatFrame>>

\* setRepeatDelay(delay_ms)
SetRepeatDelay(d) ==
    /\ repeat_delay /= d
    /\ repeat_delay' = d
    /\ rbLast' = "setRepeatDelay"
    /\ UNCHANGED <<rbHeld, rbDown, rbTimer, rbClicks, rbPresses, rbDue, rbTime,
                   repeat_interval, repeatFrame>>

\* setRepeatInterval(interval_ms)
SetRepeatInterval(i) ==
    /\ repeat_interval /= i
    /\ repeat_interval' = i
    /\ rbLast' = "setRepeatInterval"
    /\ UNCHANGED <<rbHeld, rbDown, rbTimer, rbClicks, rbPresses, rbDue, rbTime,
                   repeat_delay, repeatFrame>>

RepeatNext ==
    \/ MousePress
    \/ MouseRelease
    \/ Tick
    \/ Timeout
    \/ \E d \in Durations : SetRepeatDelay(d)
    \/ \E i \in Durations : SetRepeatInterval(i)

InitRepeat == TMInit /\ ResolveIdle /\ ExpandIdle /\ QssIdle /\ ExtIdle

SpecRepeat == InitRepeat /\ [][RepeatNext]_vars

(***************************************************************************)
(* Claims about the RepeatButton                                           *)
(***************************************************************************)
\* C20: while the button is held a click is triggered after the repeat delay
\* and again after every repeat interval (no click is ever overdue), and no
\* click is triggered, and no timer left running, once it is released.
C20_ClicksWhileHeld ==
    /\ rbHeld => rbDue >= 0
    /\ ~rbHeld => ~rbTimer.active

(***************************************************************************)
(* SpecNumber: a NumberBoxEdit whose text is changed and whose value is    *)
(* read                                                                    *)
(***************************************************************************)
\* the longest text typed into the box
MaxNumLen == 2

NumChars == {"1", "2", "-", " ", "a"}

RECURSIVE NumTextsUpTo(_)
NumTextsUpTo(n) ==
    IF n = 0 THEN {""}
    ELSE LET shorter == NumTextsUpTo(n - 1) IN
         shorter \cup {t \o c : t \in shorter, c \in NumChars}

NumTexts == NumTextsUpTo(MaxNumLen)

\* str.strip() of the whitespace float() skips on both sides
RECURSIVE StripSpaces(_)
StripSpaces(s) ==
    IF Len(s) > 0 /\ SubSeq(s, 1, 1) = " " THEN StripSpaces(SubSeq(s, 2, Len(s)))
    ELSE IF Len(s) > 0 /\ SubSeq(s, Len(s), Len(s)) = " "
    THEN StripSpaces(SubSeq(s, 1, Len(s) - 1))
    ELSE s

DigitValue(c) == IF c = "1" THEN 1 ELSE 2

IsDigits(s) ==
    Len(s) > 0 /\ \A i \in 1..Len(s) : SubSeq(s, i, i) \in {"1", "2"}

\* the number a string of decimal digits writes
RECURSIVE DigitsValue(_)
DigitsValue(s) ==
    IF Len(s) = 0 THEN 0
    ELSE 10 * DigitsValue(SubSeq(s, 1, Len(s) - 1))
         + DigitValue(SubSeq(s, Len(s), Len(s)))

\* float(text): N(x) for blanks, an optional sign and digits, Null where
\* float raises ValueError
ParseFloat(text) ==
    LET Signed(s) ==
            IF Len(s) > 0 /\ SubSeq(s, 1, 1) = "-"
            THEN IF IsDigits(SubSeq(s, 2, Len(s)))
                 THEN N(0 - DigitsValue(SubSeq(s, 2, Len(s))))
                 ELSE Null
            ELSE IF IsDigits(s) THEN N(DigitsValue(s)) ELSE Null
    IN  Signed(StripSpaces(text))

\* _update_internal_value_from_text: the new _internal_value
update_internal_value_from_text(value, text) ==
    LET Updated(new_value) ==
            IF ~IsNull(new_value) /\ new_value /= value THEN new_value ELSE value
    IN  Updated(ParseFloat(text))

\* what a step of SpecNumber leaves alone
numberFrame ==
    <<resolveVars, expandVars, tmVars, qssVars, fsVars, widgetVars, loadVars,
      instVars, lockVars, repeatVars, engineVars, reloadVars, raceVars,
      orderVars>>

\* the text of the box becomes new_text; textChanged calls _on_text_changed
TextChanged(new_text) ==
    /\ new_text /= nbText
    /\ nbText' = new_text
    /\ internal_value' = update_internal_value_from_text(internal_value, new_text)
    /\ nbLast' = [op |-> "textChanged", value |-> Null]
    /\ UNCHANGED numberFrame

\* somebody reads NumberBoxEdit.value
ReadValue ==
    /\ internal_value' = update_internal_value_from_text(internal_value, nbText)
    /\ nbLast' = [op |-> "value", value |-> internal_value']
    /\ UNCHANGED <<nbText, numberFrame>>

NumberNext ==
    \/ \E new_text \in NumTexts : TextChanged(new_text)
    \/ ReadValue

InitNumber == TMInit /\ ResolveIdle /\ ExpandIdle /\ QssIdle /\ ExtIdle

SpecNumber == InitNumber /\ [][NumberNext]_vars

(***************************************************************************)
(* Claims about the NumberBoxEdit                                          *)
(***************************************************************************)
\* C21: after any sequence of text changes, value returns the float value
\* of the current text if that text is a valid number and None otherwise.
C21_ValueFollowsText ==
    nbLast.op = "value" => nbLast.value = ParseFloat(nbText)

(***************************************************************************)
(* SpecEngine: set_variables, apply_to_file, register and set_theme, one   *)
(* call after another, on the QSSProcessor of the ThemeManager             *)
(***************************************************************************)
\* what a call of SpecEngine leaves alone outside the ThemeManager
engineFrame ==
    <<alive, resolveVars, expandVars, qssVars, fsVars, widgetVars, loadVars,
      instVars, lockVars, repeatVars, numberVars, reloadVars, raceVars,
      orderVars>>

\* the dict load_component merges into (line 56) is the ThemeManager's own;
\* line 58 hands it to set_variables, and the processor holds it again
WithManagersDict(st) ==
    IF detached THEN [st EXCEPT !.component_resources = tmDict] ELSE st

\* qss_manager.set_variables(m) with a dict m of the client
EngineSetVariables(m) ==
    /\ Called
    /\ Becomes(set_variables([Begin EXCEPT !.component_resources = m]))
    /\ lastOp' = [NoOp EXCEPT !.op = "set_variables"]
    /\ detached' = TRUE
    /\ tmDict' = IF detached THEN tmDict ELSE component_resources
    /\ UNCHANGED engineFrame

\* ThemeManager.register(w, g, c): load_component merges only when c is not
\* loaded yet (line 48)
EngineRegister(w, g, c) ==
    /\ Called
    /\ w \in alive
    /\ LET loads == c \notin LOADED_COMPONENTS IN
       \E r \in {register(IF loads THEN WithManagersDict(Begin) ELSE Begin,
                          w, g, c)} :
         /\ Becomes(r.st)
         /\ lastOp' = [NoOp EXCEPT !.op = "register", !.w = w, !.c = c,
                                   !.raised = r.raised]
         /\ detached' = (detached /\ ~loads)
         /\ tmDict' = IF detached /\ ~loads THEN tmDict ELSE <<>>
    /\ UNCHANGED engineFrame

\* ThemeManager.set_theme(t): a change of theme reloads the loaded components
EngineSetTheme(t) ==
    /\ Called
    /\ LET loads == theme /= t /\ LOADED_COMPONENTS /= {} IN
       \E order \in Orders(LOADED_COMPONENTS) :
       \E r \in {set_theme(IF loads THEN WithManagersDict(Begin) ELSE Begin,
                           t, order)} :
         /\ Becomes(r.st)
         /\ lastOp' = [NoOp EXCEPT !.op = "set_theme", !.raised = r.raised,
                                   !.updated = r.updated]
         /\ detached' = (detached /\ ~loads)
         /\ tmDict' = IF detached /\ ~loads THEN tmDict ELSE <<>>
    /\ UNCHANGED engineFrame

EngineNext ==
    \/ \E m \in QssVarMaps : EngineSetVariables(m)
    \/ \E p \in QssPaths : CallApplyToFile(p)
    \/ \E w \in Widgets, g \in Groups, c \in Components : EngineRegister(w, g, c)
    \/ \E t \in Themes : EngineSetTheme(t)
    \/ \E p \in QssPaths, text \in TemplateTexts : WriteTemplate(p, text)

InitEngine == TMInit /\ ResolveIdle /\ ExpandIdle /\ QssIdle /\ ExtIdle

SpecEngine == InitEngine /\ [][EngineNext]_vars

(***************************************************************************)
(* Claims about the caches of the QSSProcessor                             *)
(***************************************************************************)
\* the expansion of text under the variables the processor holds now
ExpansionNow(text) ==
    apply_to_string(compile_pattern(component_resources), component_resources,
                    text)

\* C23 (first part): every entry of _processed_cache is the expansion of the
\* cached template text of its path under the processor's current variables.
C23_CacheIsCurrentExpansion ==
    \A p \in DOMAIN processed_cache :
        /\ p \in DOMAIN template_cache
        /\ processed_cache[p] = ExpansionNow(template_cache[p])

\* C23 (second part): apply_to_file of a path that has a cached expansion
\* returns that entry and leaves the caches as they are.
C23_ReturnsCachedEntry ==
    [][\A p \in DOMAIN processed_cache :
          (lastOp'.op = "apply_to_file" /\ lastOp'.path = p /\ nOps' = nOps + 1)
              => /\ lastOp'.value = S(processed_cache[p])
                 /\ processed_cache' = processed_cache
                 /\ template_cache' = template_cache]_vars

\* C23 (third part): a template text is read from storage when its path
\* enters _template_cache, and never again, whatever is written to the file.
C23_TemplateReadOnce ==
    [][\A p \in DOMAIN template_cache' :
          IF p \in DOMAIN template_cache
          THEN template_cache'[p] = template_cache[p]
          ELSE template_cache'[p] = qssDisk[p]]_vars

\* C23: in a sequential run of set_variables, apply_to_file, register and
\* set_theme every cached expansion is the expansion of the cached template
\* under the current variables, apply_to_file answers a cached path from the
\* cache, and a template is read from storage once.
C23_ExpansionCache ==
    /\ []C23_CacheIsCurrentExpansion
    /\ C23_ReturnsCachedEntry
    /\ C23_TemplateReadOnce

\* C23 witness: after set_variables by the client, the template of the button
\* has been rewritten on disk, and apply_to_file has answered from the cache
\* an expansion that differs from the one the file on disk would give.
C23_Witness ==
    /\ detached
    /\ lastOp.op = "apply_to_file" /\ ~lastOp.raised
    /\ lastOp.path = QssPath("button")
    /\ lastOp.path \in DOMAIN processed_cache
    /\ lastOp.value = S(processed_cache[lastOp.path])
    /\ qssDisk[lastOp.path] /= template_cache[lastOp.path]
    /\ lastOp.value /= S(ExpansionNow(qssDisk[lastOp.path]))
    /\ lastOp.value /= S(template_cache[lastOp.path])

(***************************************************************************)
(* SpecDefault: get_default_value among register and set_theme             *)
(***************************************************************************)
\* the names get_default_value is asked for
DefaultNames == {"BtnFg", "BtnBg", "Pad", "LstRadius", "Missing"}

\* tm.get_default_value(YamlPath(g, c), n)
GetDefaultValue(g, c, n) ==
    /\ Called
    /\ \E r \in {get_default_value(Begin, YamlPath(g, c), n)} :
       /\ Becomes(r.st)
       /\ lastOp' = [NoOp EXCEPT !.op = "get_default_value",
                                 !.path = YamlPath(g, c), !.name = n,
                                 !.value = r.value]
    /\ UNCHANGED <<alive, resolveVars, expandVars, qssVars, extVars>>

DefaultNext ==
    \/ \E g \in Groups, c \in Components, n \in DefaultNames :
          GetDefaultValue(g, c, n)
    \/ \E w \in Widgets, g \in Groups, c \in Components : Register(w, g, c)
    \/ \E t \in Themes : SetTheme(t)

InitDefault == TMInit /\ ResolveIdle /\ ExpandIdle /\ QssIdle /\ ExtIdle

SpecDefault == InitDefault /\ [][DefaultNext]_vars

(***************************************************************************)
(* Claims about get_default_value                                          *)
(***************************************************************************)
\* the raw value of name in the component document at path: no theme, no
\* reference, no default is applied to it
RawValue(path, name) ==
    IF path \in DOMAIN YamlFiles /\ IsMap(YamlFiles[path])
    THEN GetOr(YamlFiles[path].m, name, Null)
    ELSE Null

\* the base/common document as it is on disk
BaseDocument == YamlFiles[common_yaml_path].m

\* a raw value, a string that is a top-level key of the base document replaced
\* by the base document's value for it, once
OneLevel(v) ==
    IF IsStr(v) /\ HasKey(BaseDocument, v.s) THEN Get(BaseDocument, v.s) ELSE v

\* C24: get_default_value(path, name) is the raw value of name with one level
\* of substitution from the base document, whatever the theme is and whatever
\* load_component has merged into the accumulated map.
C24_DefaultIsRawOneLevel ==
    lastOp.op = "get_default_value"
        => lastOp.value = OneLevel(RawValue(lastOp.path, lastOp.name))

\* C24 witness: under theme Dark, list_box loaded and its tokens merged, the
\* default of LstRadius, whose raw value Corner is a key of the base document,
\* is the base document's value for Corner, itself a key of the base document.
C24_Witness ==
    /\ lastOp.op = "get_default_value"
    /\ lastOp.name = "LstRadius"
    /\ theme = "Dark"
    /\ "list_box" \in LOADED_COMPONENTS
    /\ HasKey(component_resources, "LstRadius")
    /\ RawValue(lastOp.path, "LstRadius") = S("Corner")
    /\ lastOp.value = S("Radius")
    /\ HasKey(BaseDocument, "Radius")

(***************************************************************************)
(* Claims about the groups of components                                   *)
(***************************************************************************)
\* C25: the resolved-map cache is per component path: get_resolved_value(n,
\* g, c) returns the entry of <g>/<c>/<c>.yaml resolved under the active
\* theme, whatever was requested for the same name under another group.
C25_ResolvedFromOwnGroup ==
    [][\A n \in TokenNames, g \in Groups, c \in Components :
          GetResolvedValue(n, g, c)
              => lastOp'.value = ExpectedValue(n, g, c, theme)]_vars

\* the document a loaded component was loaded from: load_component merges the
\* map get_resolved_data_and_path answered, which RESOLVED_CACHE holds with
\* its path
LoadedFrom(c) == RESOLVED_CACHE[c].path

\* the names of the entries of the document at path
NamesAt(path) == Keys(DocumentAt(path).m)

\* the value load_component merges for entry n of the document at path under
\* theme t: the resolved value, or the default value of a null entry
MergedValue(n, path, t) ==
    LET doc == DocumentAt(path)
        v   == GetOr(resolve(YamlFiles[common_yaml_path], doc, t), n, Null)
        raw == GetOr(doc.m, n, Null)
    IN  IF ~IsNull(v) THEN v
        ELSE IF IsStr(raw) THEN GetOr(COMMON_DICT_CACHE, raw.s, raw) ELSE raw

\* a set_theme(t) that changes the theme and returns
SwitchesTo(t) ==
    /\ nOps' = nOps + 1
    /\ lastOp'.op = "set_theme" /\ ~lastOp'.raised
    /\ theme /= t /\ theme' = t

\* C26: after a set_theme(T) that changed the theme, the tokens of every
\* component that was loaded are, in the accumulated map, the entries of the
\* document the component was loaded from, resolved under T (a name that
\* another loaded component defines too is left out: the later load wins).
C26_ReloadedFromOwnDocument ==
    [][\A t \in Themes :
          SwitchesTo(t) =>
              \A c \in LOADED_COMPONENTS :
                  \A n \in NamesAt(LoadedFrom(c)) :
                      (\A d \in LOADED_COMPONENTS \ {c} :
                           n \notin NamesAt(LoadedFrom(d)))
                          => /\ HasKey(component_resources', n)
                             /\ Get(component_resources', n)
                                    = MergedValue(n, LoadedFrom(c), t)]_vars

(***************************************************************************)
(* Claims about registering a widget again                                 *)
(***************************************************************************)
\* C28: every WidgetRegistry.register(w, c) for which the template of c is
\* found records the association and gives the widget the expansion of that
\* template before it returns, also when w is registered already.
C28_RegisterAppliesTemplate ==
    [][\A w \in Widgets, c \in Components :
          (/\ RegistersWidget(w, c)
           /\ Readable(QssPath(c))
           /\ wFault[w] = "none")
              => /\ ~lastOp'.raised
                 /\ HasKey(widgets', w) /\ Get(widgets', w) = c
                 /\ styleSheet'[w] = ExpansionNow(qssDisk[QssPath(c)])]_vars

(***************************************************************************)
(* SpecReload: _load_file_cached and force_reload, one evaluation after    *)
(* another, while somebody else writes the file                            *)
(***************************************************************************)
\* what a step of SpecReload leaves alone
reloadFrame ==
    <<theme, RESOLVED_CACHE, RAW_DATA_CACHE, LOADED_COMPONENTS,
      component_resources, pattern, template_cache, processed_cache, widgets,
      existing_qss_paths, missing_qss_components, styleSheet, alive, restyled,
      refreshed, resolveLog, switched, resolveVars, expandVars, qssVars,
      qssDisk, widgetVars, instVars, lockVars, repeatVars, numberVars,
      engineVars, raceVars, orderVars>>

\* _load_file_cached(p), lines 28-33: the modification time is taken first;
\* an entry with that modification time is returned
RlL28(p) ==
    /\ rlLocal.pc = "idle"
    /\ Called
    /\ LET mtime == get_mtime(Cur, p) IN
       IF p \in DOMAIN FILE_CACHE /\ FILE_CACHE[p].mtime = mtime
       THEN /\ rlLocal' = [rlLocal EXCEPT !.wrote = FALSE]
            /\ lastOp' = [NoOp EXCEPT !.op = "load", !.path = p, !.hit = TRUE,
                                      !.value = FILE_CACHE[p].data]
       ELSE /\ rlLocal' = [rlLocal EXCEPT !.pc = "L34", !.path = p,
                                          !.mtime = mtime, !.wrote = FALSE]
            /\ UNCHANGED lastOp
    /\ UNCHANGED <<FILE_CACHE, fsVars, loadVars, reloadFrame>>

\* lines 34-40: the file is opened and parsed, the entry stored with the
\* modification time taken at line 29
RlL34 ==
    /\ rlLocal.pc = "L34"
    /\ LET data == ParseOf(yamlDisk, rlLocal.path) IN
       /\ FILE_CACHE' = Store(FILE_CACHE, rlLocal.path,
                              [mtime |-> rlLocal.mtime, data |-> data])
       /\ lastOp' = [NoOp EXCEPT !.op = "load", !.path = rlLocal.path,
                                 !.value = data]
       /\ rlLocal' = [rlLocal EXCEPT
                         !.pc = "idle",
                         !.paired = @ /\ rlLocal.mtime = MTimeOf(yamlDisk, rlLocal.path)]
    /\ UNCHANGED <<nOps, fsVars, loadVars, reloadFrame>>

\* force_reload(p), lines 52-57: the file is opened and parsed first
RlL52(p) ==
    /\ rlLocal.pc = "idle"
    /\ Called
    /\ rlLocal' = [rlLocal EXCEPT !.pc = "L58", !.path = p,
                                  !.data = ParseOf(yamlDisk, p),
                                  !.readAt = MTimeOf(yamlDisk, p),
                                  !.wrote = FALSE]
    /\ UNCHANGED <<lastOp, FILE_CACHE, fsVars, loadVars, reloadFrame>>

\* lines 58-60: the modification time is taken after the read, and stored
\* with what was read
RlL58 ==
    /\ rlLocal.pc = "L58"
    /\ LET mtime == get_mtime(Cur, rlLocal.path) IN
       /\ FILE_CACHE' = Store(FILE_CACHE, rlLocal.path,
                              [mtime |-> mtime, data |-> rlLocal.data])
       /\ rlLocal' = [rlLocal EXCEPT !.pc = "idle", !.data = Null,
                                     !.paired = @ /\ mtime = rlLocal.readAt]
    /\ lastOp' = [NoOp EXCEPT !.op = "force_reload", !.path = rlLocal.path,
                              !.value = rlLocal.data]
    /\ UNCHANGED <<nOps, fsVars, loadVars, reloadFrame>>

\* somebody else writes the file p, at any moment: the modification time of
\* the new version is later than every earlier one of that file
RlWrite(p, doc) ==
    /\ Called
    /\ lastMTime[p] < MaxMTime
    /\ yamlDisk' = Store(yamlDisk, p, [mtime |-> lastMTime[p] + 1, data |-> doc])
    /\ lastMTime' = [lastMTime EXCEPT ![p] = @ + 1]
    /\ rlLocal' = [rlLocal EXCEPT
                      !.wrote = @ \/ (rlLocal.pc /= "idle" /\ rlLocal.path = p)]
    /\ lastOp' = IF rlLocal.pc = "idle"
                 THEN [NoOp EXCEPT !.op = "write", !.path = p]
                 ELSE lastOp
    /\ UNCHANGED <<FILE_CACHE, qssDisk, mtimesIncrease, reloadFrame>>

ReloadNext ==
    \/ \E p \in LoadPaths : RlL28(p)
    \/ RlL34
    \/ \E p \in LoadPaths : RlL52(p)
    \/ RlL58
    \/ \E p \in LoadPaths, doc \in WrittenDocs : RlWrite(p, doc)

InitReload == TMInit /\ ResolveIdle /\ ExpandIdle /\ QssIdle /\ ExtIdle

SpecReload == InitReload /\ [][ReloadNext]_vars

(***************************************************************************)
(* Claims about force_reload                                               *)
(***************************************************************************)
\* C29 (first part): every entry of the file cache pairs the parsed content
\* with the modification time of the file version the content was read from.
C29_EntriesPaired == rlLocal.paired

\* C29 (second part): a load(p) during which the file was not written returns
\* the parse of the file's current content.
C29_QuietLoadIsCurrent ==
    (lastOp.op = "load" /\ rlLocal.pc = "idle" /\ ~rlLocal.wrote)
        => lastOp.value = ParseOf(yamlDisk, lastOp.path)

\* C29: under any interleaving of force_reload and load with a writer of the
\* file, every cache entry pairs content and modification time of one version
\* of the file, and once the file has stopped changing load returns its
\* current content.
C29_CacheFollowsFile == C29_EntriesPaired /\ C29_QuietLoadIsCurrent

(***************************************************************************)
(* SpecRace: ThemeManager.register on one thread and set_theme on another, *)
(* one lock section or statement after another                             *)
(***************************************************************************)
\* the bounds on the calls of the two threads
MaxRegs == 2
MaxSwitches == 2

\* the component the widgets are registered under, and its group: the group
\* set_theme reloads from, with a token document that is not empty
RaceGroup == "controls"
RaceComponent == "button"

\* what a step of SpecRace leaves alone outside the ThemeManager
raceFrame ==
    <<resolveVars, expandVars, qssVars, fsVars, widgetVars, loadVars, instVars,
      lockVars, repeatVars, numberVars, engineVars, reloadVars, orderVars,
      alive, lastOp, nOps>>

\* register(w, RaceGroup, RaceComponent) begins: load_component lines 47-49,
\* the membership test under the lock
RcL47(w) ==
    /\ rcReg.pc = "idle" /\ rcReg.calls < MaxRegs
    /\ rcReg' = [rcReg EXCEPT
                    !.pc = IF RaceComponent \in LOADED_COMPONENTS
                           THEN "L43" ELSE "L51",
                    !.w = w, !.c = RaceComponent, !.calls = @ + 1,
                    !.raised = FALSE, !.overlapped = rcSw.pc /= "idle"]
    /\ UNCHANGED <<rcSw, becomesVars, raceFrame>>

\* line 51: get_resolved_data_and_path, its body under the lock
RcL51 ==
    /\ rcReg.pc = "L51"
    /\ \E r \in {get_resolved_data_and_path(Cur, RaceGroup, rcReg.c)} :
       /\ Becomes(r.st)
       /\ rcReg' = [rcReg EXCEPT !.pc = "L53", !.data = r.data, !.path = r.path]
    /\ UNCHANGED <<rcSw, raceFrame>>

\* lines 53-58: the merge into component_resources and set_variables
RcL53 ==
    /\ rcReg.pc = "L53"
    /\ Becomes(set_variables(MergeFrom(Cur, rcReg.data, rcReg.path, 1)))
    /\ rcReg' = [rcReg EXCEPT !.pc = "L60"]
    /\ UNCHANGED <<rcSw, raceFrame>>

\* lines 60-63: the component joins _LOADED_COMPONENTS under the lock;
\* `return value` raises when the resolved map was empty
RcL60 ==
    /\ rcReg.pc = "L60"
    /\ LOADED_COMPONENTS' = LOADED_COMPONENTS \cup {rcReg.c}
    /\ rcReg' = IF rcReg.data = <<>>
                THEN [rcReg EXCEPT !.pc = "idle", !.raised = TRUE]
                ELSE [rcReg EXCEPT !.pc = "L43"]
    /\ UNCHANGED <<theme, RESOLVED_CACHE, RAW_DATA_CACHE, component_resources,
                   pattern, template_cache, processed_cache, FILE_CACHE,
                   widgets, existing_qss_paths, missing_qss_components,
                   styleSheet, restyled, refreshed, resolveLog, switched,
                   rcSw, raceFrame>>

\* line 43: widget_registry.register(widget, component_name)
RcL43 ==
    /\ rcReg.pc = "L43"
    /\ \E r \in {registry_register(Cur, rcReg.w, rcReg.c)} :
       /\ Becomes(r.st)
       /\ rcReg' = [rcReg EXCEPT !.pc = "idle", !.raised = r.raised]
    /\ UNCHANGED <<rcSw, raceFrame>>

\* set_theme(t), lines 106-108
RcL106(t) ==
    /\ rcSw.pc = "idle" /\ rcSw.calls < MaxSwitches
    /\ theme' = t
    /\ rcSw' = [rcSw EXCEPT !.pc = IF theme = t THEN "idle" ELSE "L110",
                            !.calls = @ + 1, !.raised = FALSE]
    /\ rcReg' = [rcReg EXCEPT
                    !.overlapped = @ \/ (theme /= t /\ rcReg.pc /= "idle")]
    /\ UNCHANGED <<RESOLVED_CACHE, RAW_DATA_CACHE, LOADED_COMPONENTS,
                   component_resources, pattern, template_cache,
                   processed_cache, FILE_CACHE, widgets, existing_qss_paths,
                   missing_qss_components, styleSheet, restyled, refreshed,
                   resolveLog, switched, raceFrame>>

\* lines 110-113, under the lock: the caches are cleared, the loaded
\* components listed
RcL110 ==
    /\ rcSw.pc = "L110"
    /\ RESOLVED_CACHE' = EmptyDict
    /\ LOADED_COMPONENTS' = {}
    /\ \E order \in Orders(LOADED_COMPONENTS) :
          rcSw' = [rcSw EXCEPT !.pc = "L115", !.todo = order]
    /\ UNCHANGED <<theme, RAW_DATA_CACHE, component_resources, pattern,
                   template_cache, processed_cache, FILE_CACHE, widgets,
                   existing_qss_paths, missing_qss_components, styleSheet,
                   restyled, refreshed, resolveLog, switched, rcReg, raceFrame>>

\* lines 115-116: the next component of the list is loaded again
RcL115 ==
    /\ rcSw.pc = "L115" /\ rcSw.todo /= <<>>
    /\ \E r \in {load_component(Cur, "controls", Head(rcSw.todo))} :
       /\ Becomes(r.st)
       /\ rcSw' = IF r.raised
                  THEN [rcSw EXCEPT !.pc = "idle", !.todo = <<>>, !.raised = TRUE]
                  ELSE [rcSw EXCEPT !.todo = Tail(@)]
    /\ UNCHANGED <<rcReg, raceFrame>>

\* line 118: update_all, when the list is done
RcL118 ==
    /\ rcSw.pc = "L115" /\ rcSw.todo = <<>>
    /\ \E r \in {update_all(Cur)} :
       /\ Becomes(r.st)
       /\ rcSw' = [rcSw EXCEPT !.pc = "idle", !.raised = r.raised]
    /\ UNCHANGED <<rcReg, raceFrame>>

RaceNext ==
    \/ \E w \in Widgets : RcL47(w)
    \/ RcL51
    \/ RcL53
    \/ RcL60
    \/ RcL43
    \/ \E t \in Themes : RcL106(t)
    \/ RcL110
    \/ RcL115
    \/ RcL118

InitRace == TMInit /\ ResolveIdle /\ ExpandIdle /\ QssIdle /\ ExtIdle

SpecRace == InitRace /\ [][RaceNext]_vars

(***************************************************************************)
(* Claims about register racing set_theme                                  *)
(***************************************************************************)
\* both threads are out of their calls, and the last register returned
BothReturned ==
    /\ rcReg.pc = "idle" /\ rcSw.pc = "idle"
    /\ rcReg.calls > 0 /\ ~rcReg.raised /\ ~rcSw.raised

\* C27: once a register(w, g, C) and a set_theme(T) that ran at the same time
\* have both returned, C is loaded, the accumulated map holds C's tokens as
\* resolved under the active theme, and the widget's style text is the
\* expansion of C's template under those tokens.
C27_SettledAfterRace ==
    BothReturned =>
        /\ rcReg.c \in LOADED_COMPONENTS
        /\ \A n \in NamesAt(YamlPath(RaceGroup, rcReg.c)) :
              /\ HasKey(component_resources, n)
              /\ Get(component_resources, n)
                     = MergedValue(n, YamlPath(RaceGroup, rcReg.c), theme)
        /\ styleSheet[rcReg.w] = ExpansionNow(QssFiles[QssPath(rcReg.c)])

(***************************************************************************)
(* SpecOrder: the lock operations of the calls of the ThemeManager, on     *)
(* threads that run at the same time                                       *)
(***************************************************************************)
\* the bound on the calls of one thread
MaxLockCalls == 2

\* _load_file_cached: `with _CACHE_LOCK:` around its whole body
\* (yaml_util.py:28-40); it calls nothing that takes a lock
LoadFileLocks == <<"+FILE", "-FILE">>

\* get_default_value that takes the ThemeManager lock inside the file lock
GetDefaultLocksFileFirst(hit) ==
    IF hit THEN <<"+TM", "-TM">>
    ELSE <<"+FILE", "+TM", "-TM", "-FILE">> \o LoadFileLocks

\* get_default_value (lines 91-97): under the ThemeManager lock, a path that
\* is not in _RAW_DATA_CACHE is loaded by YAMLProcessor(yaml_path) (line 13
\* of yaml_util.py) and again by yaml_to_dict (line 74)
GetDefaultLocks(hit) ==
    IF hit THEN <<"+TM", "-TM">>
    ELSE <<"+TM">> \o LoadFileLocks \o LoadFileLocks \o <<"-TM">>

\* get_resolved_data_and_path (lines 74-87): under the ThemeManager lock, a
\* name that is not in _RESOLVED_CACHE has YAMLProcessor(common_yaml_path)
\* and resolve (yaml_util.py:131) load a file each
GetResolvedLocks(hit) ==
    IF hit THEN <<"+TM", "-TM">>
    ELSE <<"+TM">> \o LoadFileLocks \o LoadFileLocks \o <<"-TM">>

\* the calls of get_default_value one call can make: none, or one for an
\* entry that is None, which finds the raw document cached or not
DefaultCalls == {<<>>} \cup {GetDefaultLocks(hit) : hit \in BOOLEAN}

\* load_component (lines 47-61): the membership test under the lock; for a
\* component that is not loaded get_resolved_data_and_path, get_default_value
\* for an entry that is None, and the add under the lock
LoadComponentLocks ==
    {<<"+TM", "-TM">>}
    \cup {<<"+TM", "-TM">> \o GetResolvedLocks(hit) \o d \o <<"+TM", "-TM">> :
             hit \in BOOLEAN, d \in DefaultCalls}

\* register (lines 41-43): load_component, then WidgetRegistry.register,
\* which takes no lock
RegisterLocks == LoadComponentLocks

\* get_resolved_value (lines 65-71)
GetResolvedValueLocks ==
    {GetResolvedLocks(hit) \o d : hit \in BOOLEAN, d \in DefaultCalls}

\* set_theme (lines 105-118): nothing for the theme that is active; otherwise
\* the clear under the lock, load_component for each listed component (none
\* or one here), and update_all, which takes no lock
SetThemeLocks ==
    {<<>>, <<"+TM", "-TM">>}
    \cup {<<"+TM", "-TM">> \o l : l \in LoadComponentLocks}

\* the lock operations of one call of the four
LockPrograms ==
    (RegisterLocks \cup GetResolvedValueLocks \cup SetThemeLocks
        \cup {GetDefaultLocks(hit) : hit \in BOOLEAN}) \ {<<>>}

\* the lock an operation is about
LockOf(op) == IF op \in {"+TM", "-TM"} THEN "TM" ELSE "FILE"

IsAcquire(op) == op \in {"+TM", "+FILE"}

\* what a step of SpecOrder leaves alone
orderFrame ==
    <<resolveVars, expandVars, tmVars, qssVars, fsVars, widgetVars, loadVars,
      instVars, lockVars, repeatVars, numberVars, engineVars, reloadVars,
      raceVars>>

\* thread t begins one of the four calls
LoCall(t, prog) ==
    /\ loThread[t].prog = <<>> /\ loThread[t].calls < MaxLockCalls
    /\ loThread' = [loThread EXCEPT ![t] = [prog |-> prog, calls |-> @.calls + 1]]
    /\ UNCHANGED <<loOwner, loCount, orderFrame>>

\* threading.RLock.acquire: free, or held by the caller itself
LoAcquire(t) ==
    /\ loThread[t].prog /= <<>> /\ IsAcquire(Head(loThread[t].prog))
    /\ LET l == LockOf(Head(loThread[t].prog)) IN
       /\ loOwner[l] \in {"free", t}
       /\ loOwner' = [loOwner EXCEPT ![l] = t]
       /\ loCount' = [loCount EXCEPT ![l] = @ + 1]
    /\ loThread' = [loThread EXCEPT ![t].prog = Tail(@)]
    /\ UNCHANGED orderFrame

\* threading.RLock.release at the end of a with block
LoRelease(t) ==
    /\ loThread[t].prog /= <<>> /\ ~IsAcquire(Head(loThread[t].prog))
    /\ LET l == LockOf(Head(loThread[t].prog)) IN
       /\ loOwner[l] = t
       /\ loCount' = [loCount EXCEPT ![l] = @ - 1]
       /\ loOwner' = [loOwner EXCEPT ![l] = IF loCount[l] = 1 THEN "free" ELSE t]
    /\ loThread' = [loThread EXCEPT ![t].prog = Tail(@)]
    /\ UNCHANGED orderFrame

\* the next lock operation of thread t
LoStep(t) == LoAcquire(t) \/ LoRelease(t)

OrderNext ==
    \/ \E t \in Threads, prog \in LockPrograms : LoCall(t, prog)
    \/ \E t \in Threads : LoAcquire(t)
    \/ \E t \in Threads : LoRelease(t)

InitOrder == TMInit /\ ResolveIdle /\ ExpandIdle /\ QssIdle /\ ExtIdle

\* a thread that can run does run: the interpreter schedules every thread
\* that is not waiting for a lock
SpecOrder ==
    InitOrder /\ [][OrderNext]_vars /\ \A t \in Threads : WF_vars(LoStep(t))

(***************************************************************************)
(* Claims about the order of the locks                                     *)
(***************************************************************************)
\* thread t is inside a call
InCall(t) == loThread[t].prog /= <<>>

\* thread t waits for a lock another thread holds
Waits(t) ==
    /\ InCall(t) /\ IsAcquire(Head(loThread[t].prog))
    /\ loOwner[LockOf(Head(loThread[t].prog))] \notin {"free", t}

\* the ThemeManager lock is never asked for by a thread that holds the file
\* lock
TMLockFirst ==
    \A t \in Threads :
        (InCall(t) /\ Head(loThread[t].prog) = "+TM") => loOwner["FILE"] /= t

\* whenever a thread is inside a call, some thread is not waiting
NoDeadlock ==
    (\E t \in Threads : InCall(t)) => \E t \in Threads : InCall(t) /\ ~Waits(t)

\* a thread never waits for a lock it holds itself
ReentrantNeverBlocks ==
    \A t \in Threads : Waits(t) => loOwner[LockOf(Head(loThread[t].prog))] /= t

\* C30: with threads calling register, get_resolved_value, get_default_value
\* and set_theme at the same time no deadlock is reachable: the ThemeManager
\* lock is taken before the file-cache lock, never after it, a thread is not
\* blocked by a lock it holds, and every call returns.
C30_NoDeadlock ==
    /\ [](TMLockFirst /\ NoDeadlock /\ ReentrantNeverBlocks)
    /\ \A t \in Threads : InCall(t) ~> ~InCall(t)

\* C30 witness: a thread holds the ThemeManager lock and, nested inside it,
\* the file-cache lock, while the other thread waits for the ThemeManager
\* lock.
C30_Witness ==
    \E t \in Threads, u \in Threads :
        /\ t /= u
        /\ loOwner["TM"] = t /\ loOwner["FILE"] = t
        /\ Waits(u) /\ Head(loThread[u].prog) = "+TM"

====
